---- MODULE Spec2Model ----
(***************************************************************************)
(* Dispatch and delivery-lifecycle engine of the Tiklog delivery server:   *)
(* RabbitMqService (connection registry, response relay, start/end of      *)
(* delivery with settlement, package_request bus) and                      *)
(* DeliveryController.findRiders (rider discovery).                        *)
(*                                                                         *)
(* Every async handler is a task: a record holding its position (pc) and   *)
(* its locals.  One action is one awaited operation taking effect          *)
(* together with the synchronous code that follows it up to the next       *)
(* await, so tasks interleave exactly at the await points of the code.     *)
(*                                                                         *)
(* Money is counted in 1/Scale of a currency unit, so that a fee with two  *)
(* decimals and ADMIN_CHARGES percent of it are both integers.             *)
(***************************************************************************)
EXTENDS Integers, Sequences, FiniteSets, TLC

(* ------------------------------ bounds -------------------------------- *)

\* handler invocations (relay, startDelivery, endDelivery) in flight at once
MaxTasks == 2
\* documents a behaviour adds to the AdminFee or the Notification collection
MaxRecords == 2
\* identity announcements recorded in one behaviour of the registry
MaxAnnounce == 3
\* rider locations returned by one radius query
MaxNear == 2
\* ticks of the broker's clock
MaxClock == 2
\* package requests submitted
MaxPublish == 1
\* broker connections the controller's service opens
MaxConnect == 2

(* ----------------------------- universe ------------------------------- *)

Scale == 100 * 100
Amt(n) == n * Scale

NoId == "null"
NoRec == [nil |-> TRUE]

Customers == {"c1", "c2"}
Riders == {"r1", "r2"}
Sockets == {"s1", "s2"}
DeliveryIds == {"d1", "d2"}

\* ADMIN_CHARGES (config/constants): the admin charge in percent
ADMIN_CHARGES == 10

PENDING == "pending"
ON_TRANSIT == "on_transit"
DELIVERED == "delivered"

VARIABLES
  socketMap,      \* RabbitMqService.socketMap: identity -> socket
  announced,      \* the riderId/customerId/disconnect events received so
                  \* far, in order
  unserved,       \* the startDelivery/endDelivery events and the driver
                  \* responses whose handler found no socket for the
                  \* customer and returned
  redis,          \* the cache: key -> value
  deliveries,     \* Delivery collection: _id -> document
  riders,         \* Rider collection: _id -> document
  nearRiders,     \* RiderLocation documents the $geoNear stage returns, sorted
  found,          \* customer -> outcome of the last findRiders call
  vehicles,       \* Vehicle collection: rider -> vehicleType, "none" if no record
  riderWallets,   \* RiderWallet collection, in creation order
  wallet0,        \* the RiderWallet collection at the start
  adminFees,      \* AdminFee collection, in creation order
  notifications,  \* Notification collection, in creation order
  emitted,        \* the events the last step emitted to sockets
  tasks,          \* slot -> the handler invocation in flight: position, locals
  clock,          \* the broker's time, in ticks
  queues,         \* listener -> its exclusive queue on package_request
  published,      \* the messages published on package_request, in order
  received,       \* the messages handed to consumer callbacks, in order
  pendingRequests, \* RabbitMqService.pendingRequests
  assigned,       \* the packages published on assigned_package_requests
  controller,     \* the RabbitMqService of the DeliveryController module:
                  \* its connection, channel and pendingRequests, the
                  \* channels and connections it has closed and the driver
                  \* responses it has published
  customerWallets, \* the Wallet collection: customer -> wallet, or none
  created,        \* the deliveries doDelivery has created, in order
  edited          \* the documents doEditDelivery has written, in order

vars == <<socketMap, announced, unserved, redis, deliveries, riders, nearRiders, found,
          vehicles,
          riderWallets, wallet0, adminFees, notifications, emitted, tasks,
          clock, queues, published, received, pendingRequests, assigned,
          controller, customerWallets, created, edited>>

busVars == <<clock, queues, published, received, pendingRequests, assigned,
             controller>>

regVars == <<socketMap, announced, unserved>>
discVars == <<nearRiders, found, vehicles>>
orderVars == <<customerWallets, created, edited>>
dbVars == <<deliveries, riders, riderWallets, wallet0, adminFees, notifications>>

(* ----------------------------- helpers -------------------------------- *)

Identities == Customers \cup Riders

\* a JavaScript truthiness test of an announced identity
Truthy(id) == id # "" /\ id # NoId

RECURSIVE SumBalance(_)
SumBalance(ws) ==
  IF ws = <<>> THEN 0 ELSE Head(ws).balance + SumBalance(Tail(ws))

(* ------------------------ cache (RedisService) ------------------------ *)

\* getToken(key): the value stored under the key, or null
GetToken(key) == redis[key]

\* deleteRedisKey(key)
DeleteRedisKey(key) == [redis EXCEPT ![key] = NoRec]

\* saveToken(key, value, ttl)
SaveToken(key, value) == [redis EXCEPT ![key] = value]

(* ------------------- persistence (services/dao) ----------------------- *)

\* deliveryDAOService.updateByAny({_id: id}, patch): the patched collection
DeliveryUpdateByAny(id, field, value) ==
  IF id \in DOMAIN deliveries
  THEN [deliveries EXCEPT ![id] = [@ EXCEPT ![field] = value]]
  ELSE deliveries

\* the document updateByAny resolves to
DeliveryUpdated(id, field, value) ==
  IF id \in DOMAIN deliveries
  THEN [deliveries[id] EXCEPT ![field] = value]
  ELSE NoRec

\* riderDAOService.updateByAny({_id: id}, {busy: value})
RiderUpdateByAny(id, value) ==
  IF id \in DOMAIN riders
  THEN [riders EXCEPT ![id] = [@ EXCEPT !.busy = value]]
  ELSE riders

\* riderDAOService.findById(id)
RiderFindById(id) == IF id \in DOMAIN riders THEN riders[id] ELSE NoRec

\* riderWalletDAOService.findByAny({rider: riderId}): the first match or null
WalletFindByAny(riderId) ==
  LET hits == SelectSeq(riderWallets, LAMBDA w : w.rider = riderId)
  IN  IF hits = <<>> THEN NoRec ELSE Head(hits)

\* riderWalletDAOService.update({_id: id}, {balance: value}): the first
\* document whose _id is id gets the patch; no document, no change
WalletUpdate(id, value) ==
  LET hit == {i \in DOMAIN riderWallets : riderWallets[i]._id = id}
  IN  IF hit = {} THEN riderWallets
      ELSE LET k == CHOOSE i \in hit : \A j \in hit : i <= j
           IN  [riderWallets EXCEPT ![k] = [@ EXCEPT !.balance = value]]

\* riderWalletDAOService.create(values): a new document with a fresh _id
WalletCreate(riderId, value) ==
  Append(riderWallets,
         [_id |-> <<"w1", "w2", "w3", "w4", "w5", "w6">>[Len(riderWallets) + 1], rider |-> riderId,
          balance |-> value])

(* -------------------------- connection registry ----------------------- *)

\* a registration that keeps the mapping an identity already has
RegisterSocketOnce(id, socket) ==
  IF Truthy(id) /\ id \in DOMAIN socketMap /\ socketMap[id] = NoId
  THEN [socketMap EXCEPT ![id] = socket]
  ELSE socketMap

\* socket.on('riderId') / socket.on('customerId'): socketMap.set(id, socket)
RegisterSocket(id, socket) ==
  IF Truthy(id) /\ id \in DOMAIN socketMap
  THEN [socketMap EXCEPT ![id] = socket]
  ELSE socketMap

\* findSocketIdByRiderId(riderId): socketMap.get(riderId)
FindSocketIdByRiderId(id) ==
  IF id \in DOMAIN socketMap THEN socketMap[id] ELSE NoId

\* socket.id: the id string of a connection, a value apart from the Socket
\* object that the registry stores
IdOf(socket) == IF socket = "s1" THEN "id1" ELSE "id2"

\* the keys of socketMap in insertion order: the identities announced
RECURSIVE EntryOrder(_)
EntryOrder(log) ==
  IF log = <<>> THEN <<>>
  ELSE LET before == EntryOrder(SubSeq(log, 1, Len(log) - 1))
           id == log[Len(log)].id
       IN  IF Truthy(id) /\ id \in DOMAIN socketMap
              /\ \A k \in DOMAIN before : before[k] # id
           THEN Append(before, id) ELSE before

\* the scan of findRiderIdBySocketId: the first entry whose value, a Socket,
\* is strictly equal to the id string
RECURSIVE ScanEntries(_, _)
ScanEntries(ids, socketId) ==
  IF ids = <<>> THEN NoId
  ELSE IF socketMap[Head(ids)] = socketId THEN Head(ids)
  ELSE ScanEntries(Tail(ids), socketId)

\* findRiderIdBySocketId(socketId)
FindRiderIdBySocketId(socketId) == ScanEntries(EntryOrder(announced), socketId)

\* io.on('connection'): a reverse lookup of the new socket's id, and a
\* registration under the identity found
ConnectionEvt(socket) ==
  /\ LET riderId == FindRiderIdBySocketId(IdOf(socket)) IN
       socketMap' = IF riderId # NoId THEN RegisterSocket(riderId, socket)
                    ELSE socketMap
  /\ emitted' = <<>>
  /\ UNCHANGED busVars
  /\ UNCHANGED <<announced, unserved, redis, dbVars, discVars, orderVars, tasks>>

RiderIdEvt(socket, riderId) ==
  /\ Len(announced) < MaxAnnounce
  /\ socketMap' = RegisterSocket(riderId, socket)
  /\ announced' = Append(announced,
                         [event |-> "riderId", id |-> riderId, socket |-> socket])
  /\ emitted' = <<>>
  /\ UNCHANGED busVars
  /\ UNCHANGED <<unserved, redis, dbVars, discVars, orderVars, tasks>>

CustomerIdEvt(socket, customerId) ==
  /\ Len(announced) < MaxAnnounce
  /\ socketMap' = RegisterSocket(customerId, socket)
  /\ announced' = Append(announced,
                         [event |-> "customerId", id |-> customerId,
                          socket |-> socket])
  /\ emitted' = <<>>
  /\ UNCHANGED busVars
  /\ UNCHANGED <<unserved, redis, dbVars, discVars, orderVars, tasks>>


\* a disconnect handler that unregisters the identities of its socket
DisconnectEvtUnregisters(socket) ==
  /\ Len(announced) < MaxAnnounce
  /\ socketMap' = [id \in DOMAIN socketMap |->
                     IF socketMap[id] = socket THEN NoId ELSE socketMap[id]]
  /\ announced' = Append(announced,
                         [event |-> "disconnect", id |-> NoId, socket |-> socket])
  /\ emitted' = <<>>
  /\ UNCHANGED busVars
  /\ UNCHANGED <<unserved, redis, dbVars, discVars, orderVars, tasks>>

\* socket.on('disconnect'): two log lines; the code that touched the
\* registry is commented out
DisconnectEvt(socket) ==
  /\ Len(announced) < MaxAnnounce
  /\ announced' = Append(announced,
                         [event |-> "disconnect", id |-> NoId, socket |-> socket])
  /\ emitted' = <<>>
  /\ UNCHANGED busVars
  /\ UNCHANGED <<socketMap, unserved, redis, dbVars, discVars, orderVars, tasks>>

\* the sockets that have not disconnected
LiveSockets ==
  {socket \in Sockets :
     \A k \in DOMAIN announced :
       ~(announced[k].event = "disconnect" /\ announced[k].socket = socket)}

(* ------------------------------- tasks -------------------------------- *)

PACKAGE_REQUEST_INFO == "packageRequestInfo"
RIDER_INFO == "riderInfo"

\* a handler invocation: data is the event payload, socket the customer
\* socket the handler looked up, the rest are the handler's locals. service
\* is the RabbitMqService the call runs on, the one that serves the sockets
\* ("io") unless said otherwise, and channel the channel or connection its
\* pending broker call was made on
NewTask(kind, data, socket, pc, ra) ==
  [kind |-> kind, pc |-> pc, ra |-> ra, data |-> data, socket |-> socket,
   redisData |-> NoRec, raData |-> NoRec, delivery |-> NoRec,
   riderWallet |-> NoRec, adminFee |-> 0, riderFee |-> 0, wallet |-> NoRec,
   service |-> "io", channel |-> 0]

\* a free slot
Idle == NewTask("idle", NoRec, NoId, "idle", "none")

\* a handler leaves its slot when both it and the riderAvailability call
\* it started have ended
SetTask(i, t) ==
  [tasks EXCEPT ![i] =
     IF /\ t.pc \in {"done", "failed"}
        /\ t.ra \in {"none", "ra_done", "ra_failed"}
     THEN Idle ELSE t]

\* a new invocation takes the first free slot
Spawn(t) ==
  \E i \in DOMAIN tasks :
    /\ tasks[i] = Idle
    /\ \A j \in 1..(i - 1) : tasks[j] # Idle
    /\ tasks' = [tasks EXCEPT ![i] = t]

InFlight(kind) == Cardinality({i \in DOMAIN tasks : tasks[i].kind = kind})

\* an event whose handler did nothing: `if(customerSocket)` was false
Unserved(event, data) == [event |-> event, customerId |-> data.customerId]

\* socket.emit(event, payload), as the output of the step that makes it
Emit(socket, event, about) ==
  <<[to |-> socket, event |-> event, about |-> about]>>

(* --------------------- settlement arithmetic -------------------------- *)

\* Math.round: the nearest integer, a half rounds up
MathRound(x) == ((x + Scale \div 2) \div Scale) * Scale

\* JavaScript null in the place of an amount; amounts are never negative
Null == 0 - 1

\* adminFee = delivery && ADMIN_CHARGES/100 * delivery.deliveryFee: null
\* when updateByAny resolved to null
AdminFeeOf(delivery) ==
  IF delivery = NoRec THEN Null
  ELSE (ADMIN_CHARGES * delivery.deliveryFee) \div 100

\* Math.floor in the place of Math.round
RiderFeeFloor(delivery, adminFee) ==
  IF delivery = NoRec THEN Null
  ELSE delivery.deliveryFee - (adminFee \div Scale) * Scale

\* riderFee = delivery && delivery.deliveryFee - Math.round(adminFee)
RiderFeeOf(delivery, adminFee) ==
  IF delivery = NoRec THEN Null
  ELSE delivery.deliveryFee - MathRound(adminFee)

\* balance: riderFee && riderFee + riderWallet.balance; null and 0 are
\* falsy and are the patch themselves, and a null balance adds as 0
BalancePatch(riderFee, riderWallet) ==
  IF riderFee = Null \/ riderFee = 0 THEN riderFee
  ELSE IF riderWallet.balance = Null THEN riderFee
  ELSE riderFee + riderWallet.balance

(* ------------------------- response relay ----------------------------- *)

\* a relay without the `if (customerSocket)` guard: it calls
\* riderAvailability and goes on to its cache read or delete
DriverResponseMsgUnguarded(driverResponse) ==
  /\ LET customerSocket == FindSocketIdByRiderId(driverResponse.customerId) IN
       /\ Len(notifications) + InFlight("relay") < MaxRecords
       /\ emitted' = IF customerSocket = NoId THEN <<>>
                     ELSE IF driverResponse.availability
                     THEN Emit(customerSocket, "riderResponse",
                               driverResponse.riderId)
                     ELSE Emit(customerSocket, "riderDeclined",
                               driverResponse.customerId)
       /\ Spawn(NewTask("relay", driverResponse, customerSocket,
                        IF driverResponse.availability
                        THEN "nu_get" ELSE "nu_del", "ra_get"))
       /\ unserved' = IF customerSocket = NoId
                      THEN unserved \cup
                             {Unserved("driverResponse", driverResponse)}
                      ELSE unserved
  /\ UNCHANGED busVars
  /\ UNCHANGED <<socketMap, announced, redis, dbVars, discVars, orderVars>>

\* a driver_responses message reaches the consumer callback, which calls
\* notifyUserAboutDriverResponse: the code up to its first await
DriverResponseMsg(driverResponse) ==
  /\ LET customerSocket == FindSocketIdByRiderId(driverResponse.customerId) IN
       IF customerSocket = NoId
       THEN /\ emitted' = <<>>
            /\ unserved' = unserved \cup
                 {Unserved("driverResponse", driverResponse)}
            /\ UNCHANGED tasks
       ELSE /\ Len(notifications) + InFlight("relay") < MaxRecords
            /\ IF driverResponse.availability
               THEN /\ emitted' = Emit(customerSocket, "riderResponse",
                                       driverResponse.riderId)
                    /\ Spawn(NewTask("relay", driverResponse, customerSocket,
                                     "nu_get", "ra_get"))
               ELSE /\ emitted' = Emit(customerSocket, "riderDeclined",
                                       driverResponse.customerId)
                    /\ Spawn(NewTask("relay", driverResponse, customerSocket,
                                     "nu_del", "ra_get"))
            /\ UNCHANGED unserved
  /\ UNCHANGED busVars
  /\ UNCHANGED <<socketMap, announced, redis, dbVars, discVars, orderVars>>

\* accept: the cache read resolves; deliveryDAOService.updateByAny is called
RelayGet(i) ==
  /\ tasks[i].pc = "nu_get"
  /\ LET redisData == GetToken(PACKAGE_REQUEST_INFO) IN
       tasks' = SetTask(i, IF redisData = NoRec
                           THEN [tasks[i] EXCEPT !.pc = "failed"]
                           ELSE [tasks[i] EXCEPT !.pc = "nu_upd",
                                                 !.redisData = redisData])
  /\ emitted' = <<>>
  /\ UNCHANGED busVars
  /\ UNCHANGED <<regVars, redis, dbVars, discVars, orderVars>>

\* accept: delivery.rider = the cached riderId
RelayUpdate(i) ==
  /\ tasks[i].pc = "nu_upd"
  /\ deliveries' = DeliveryUpdateByAny(tasks[i].redisData.deliveryId, "rider",
                                       tasks[i].redisData.riderId)
  /\ tasks' = SetTask(i, [tasks[i] EXCEPT !.pc = "done"])
  /\ emitted' = <<>>
  /\ UNCHANGED busVars
  /\ UNCHANGED <<regVars, redis, riders, riderWallets, wallet0, adminFees,
                  notifications, discVars, orderVars>>

\* a decline relay that leaves the cache entry in place
RelayDelKeepsEntry(i) ==
  /\ tasks[i].pc = "nu_del"
  /\ tasks' = SetTask(i, [tasks[i] EXCEPT !.pc = "done"])
  /\ emitted' = <<>>
  /\ UNCHANGED busVars
  /\ UNCHANGED <<regVars, redis, dbVars, discVars, orderVars>>

\* decline: the cache entry is deleted
RelayDel(i) ==
  /\ tasks[i].pc = "nu_del"
  /\ redis' = DeleteRedisKey(PACKAGE_REQUEST_INFO)
  /\ tasks' = SetTask(i, [tasks[i] EXCEPT !.pc = "done"])
  /\ emitted' = <<>>
  /\ UNCHANGED busVars
  /\ UNCHANGED <<regVars, dbVars, discVars, orderVars>>

\* riderAvailability, called without await by the relay: its cache read
AvailGet(i) ==
  /\ tasks[i].ra = "ra_get"
  /\ LET redisData == GetToken(PACKAGE_REQUEST_INFO) IN
       tasks' = SetTask(i, IF redisData = NoRec
                           THEN [tasks[i] EXCEPT !.ra = "ra_failed"]
                           ELSE [tasks[i] EXCEPT !.ra = "ra_create",
                                                 !.raData = redisData])
  /\ emitted' = <<>>
  /\ UNCHANGED busVars
  /\ UNCHANGED <<regVars, redis, dbVars, discVars, orderVars>>

\* riderAvailability: notificationDAOService.create
AvailCreate(i) ==
  /\ tasks[i].ra = "ra_create"
  /\ notifications' = Append(notifications,
       [deliveryRefNumber |-> tasks[i].raData.deliveryRefNumber,
        riderAvailabilityStatus |-> tasks[i].data.availability,
        rider |-> tasks[i].raData.riderId,
        customer |-> tasks[i].raData.customerId,
        delivery |-> tasks[i].raData.deliveryId])
  /\ tasks' = SetTask(i, [tasks[i] EXCEPT !.ra = "ra_done"])
  /\ emitted' = <<>>
  /\ UNCHANGED busVars
  /\ UNCHANGED <<regVars, redis, deliveries, riders, riderWallets, wallet0,
                  adminFees, discVars, orderVars>>


(* ---------------------- delivery lifecycle: arrival ------------------- *)

\* socket.on('arrived'): for a payload, the customer's socket, if there is
\* one, is sent riderArrivalNotification with data.riderArrived
ArrivedEvt(data) ==
  /\ IF data = NoRec THEN emitted' = <<>>
     ELSE LET customerSocket == FindSocketIdByRiderId(data.customerId) IN
            emitted' = IF customerSocket = NoId THEN <<>>
                       ELSE Emit(customerSocket, "riderArrivalNotification",
                                 data.riderArrived)
  /\ UNCHANGED busVars
  /\ UNCHANGED <<regVars, redis, dbVars, discVars, orderVars, tasks>>

(* ---------------------- delivery lifecycle: start --------------------- *)

\* a startDelivery handler without the `if(customerSocket)` guard
StartDeliveryEvtUnguarded(data) ==
  /\ LET customerSocket == FindSocketIdByRiderId(data.customerId) IN
       /\ Spawn(NewTask("start", data, customerSocket, "sd_get", "none"))
       /\ unserved' = IF customerSocket = NoId
                      THEN unserved \cup {Unserved("startDelivery", data)}
                      ELSE unserved
  /\ emitted' = <<>>
  /\ UNCHANGED busVars
  /\ UNCHANGED <<socketMap, announced, redis, dbVars, discVars, orderVars>>

\* socket.on('startDelivery') and startDeliveryNotification up to its await
StartDeliveryEvt(data) ==
  /\ LET customerSocket == FindSocketIdByRiderId(data.customerId) IN
       IF customerSocket = NoId
       THEN /\ unserved' = unserved \cup {Unserved("startDelivery", data)}
            /\ UNCHANGED tasks
       ELSE /\ Spawn(NewTask("start", data, customerSocket, "sd_get", "none"))
            /\ UNCHANGED unserved
  /\ emitted' = <<>>
  /\ UNCHANGED busVars
  /\ UNCHANGED <<socketMap, announced, redis, dbVars, discVars, orderVars>>

\* a start that goes on with an empty record when the cache has none
StartGetLenient(i) ==
  /\ tasks[i].pc = "sd_get"
  /\ LET redisData == GetToken(PACKAGE_REQUEST_INFO) IN
       /\ tasks' = SetTask(i, [tasks[i] EXCEPT
                                 !.pc = "sd_status",
                                 !.redisData =
                                    IF redisData = NoRec
                                    THEN [riderId |-> NoId, customerId |-> NoId,
                                          deliveryId |-> NoId,
                                          deliveryRefNumber |-> NoId]
                                    ELSE redisData])
       /\ emitted' = Emit(tasks[i].socket, "startDeliveryNotification",
                          tasks[i].data.customerId)
  /\ UNCHANGED busVars
  /\ UNCHANGED <<regVars, redis, dbVars, discVars, orderVars>>

\* the cache read resolves: destructure, emit, call the delivery update
StartGet(i) ==
  /\ tasks[i].pc = "sd_get"
  /\ LET redisData == GetToken(PACKAGE_REQUEST_INFO) IN
       IF redisData = NoRec
       THEN /\ tasks' = SetTask(i, [tasks[i] EXCEPT !.pc = "failed"])
            /\ emitted' = <<>>
       ELSE /\ tasks' = SetTask(i, [tasks[i] EXCEPT !.pc = "sd_status",
                                                    !.redisData = redisData])
            /\ emitted' = Emit(tasks[i].socket, "startDeliveryNotification",
                               tasks[i].data.customerId)
  /\ UNCHANGED busVars
  /\ UNCHANGED <<regVars, redis, dbVars, discVars, orderVars>>

\* deliveryDAOService.updateByAny({_id: deliveryId}, {status: ON_TRANSIT})
StartStatus(i) ==
  /\ tasks[i].pc = "sd_status"
  /\ deliveries' = DeliveryUpdateByAny(tasks[i].redisData.deliveryId,
                                       "status", ON_TRANSIT)
  /\ tasks' = SetTask(i, [tasks[i] EXCEPT !.pc = "sd_busy"])
  /\ emitted' = <<>>
  /\ UNCHANGED busVars
  /\ UNCHANGED <<regVars, redis, riders, riderWallets, wallet0, adminFees,
                  notifications, discVars, orderVars>>

\* riderDAOService.updateByAny({_id: riderId}, {busy: true})
StartBusy(i) ==
  /\ tasks[i].pc = "sd_busy"
  /\ riders' = RiderUpdateByAny(tasks[i].redisData.riderId, TRUE)
  /\ tasks' = SetTask(i, [tasks[i] EXCEPT !.pc = "done"])
  /\ emitted' = <<>>
  /\ UNCHANGED busVars
  /\ UNCHANGED <<regVars, redis, deliveries, riderWallets, wallet0,
                  adminFees, notifications, discVars, orderVars>>

(* ----------------------- delivery lifecycle: end ---------------------- *)

\* socket.on('endDelivery') and endDeliveryNotification up to its await
EndDeliveryEvt(data) ==
  /\ LET customerSocket == FindSocketIdByRiderId(data.customerId) IN
       IF customerSocket = NoId
       THEN /\ unserved' = unserved \cup {Unserved("endDelivery", data)}
            /\ UNCHANGED tasks
       ELSE /\ Len(adminFees) + InFlight("end") < MaxRecords
            /\ Spawn(NewTask("end", data, customerSocket, "ed_get", "none"))
            /\ UNCHANGED unserved
  /\ emitted' = <<>>
  /\ UNCHANGED busVars
  /\ UNCHANGED <<socketMap, announced, redis, dbVars, discVars, orderVars>>

\* the cache read resolves: destructure, emit, call the delivery update
EndGet(i) ==
  /\ tasks[i].pc = "ed_get"
  /\ LET redisData == GetToken(PACKAGE_REQUEST_INFO) IN
       IF redisData = NoRec
       THEN /\ tasks' = SetTask(i, [tasks[i] EXCEPT !.pc = "failed"])
            /\ emitted' = <<>>
       ELSE /\ tasks' = SetTask(i, [tasks[i] EXCEPT !.pc = "ed_status",
                                                    !.redisData = redisData])
            /\ emitted' = Emit(tasks[i].socket, "endDeliveryNotification",
                               tasks[i].data.customerId)
  /\ UNCHANGED busVars
  /\ UNCHANGED <<regVars, redis, dbVars, discVars, orderVars>>

\* deliveryDAOService.updateByAny({_id: deliveryId}, {status: DELIVERED})
EndStatus(i) ==
  /\ tasks[i].pc = "ed_status"
  /\ deliveries' = DeliveryUpdateByAny(tasks[i].redisData.deliveryId,
                                       "status", DELIVERED)
  /\ tasks' = SetTask(i, [tasks[i] EXCEPT
                            !.pc = "ed_busy",
                            !.delivery = DeliveryUpdated(
                               tasks[i].redisData.deliveryId, "status",
                               DELIVERED)])
  /\ emitted' = <<>>
  /\ UNCHANGED busVars
  /\ UNCHANGED <<regVars, redis, riders, riderWallets, wallet0, adminFees,
                  notifications, discVars, orderVars>>

\* riderDAOService.updateByAny({_id: riderId}, {busy: false})
EndBusy(i) ==
  /\ tasks[i].pc = "ed_busy"
  /\ riders' = RiderUpdateByAny(tasks[i].redisData.riderId, FALSE)
  /\ tasks' = SetTask(i, [tasks[i] EXCEPT !.pc = "ed_wallet"])
  /\ emitted' = <<>>
  /\ UNCHANGED busVars
  /\ UNCHANGED <<regVars, redis, deliveries, riderWallets, wallet0,
                  adminFees, notifications, discVars, orderVars>>

\* riderWalletDAOService.findByAny({rider: riderId}) resolves; the fees
EndWallet(i) ==
  /\ tasks[i].pc = "ed_wallet"
  /\ LET riderWallet == WalletFindByAny(tasks[i].redisData.riderId)
         adminFee == AdminFeeOf(tasks[i].delivery)
         riderFee == RiderFeeOf(tasks[i].delivery, adminFee)
     IN  tasks' = SetTask(i, [tasks[i] EXCEPT !.pc = "ed_credit",
                                              !.riderWallet = riderWallet,
                                              !.adminFee = adminFee,
                                              !.riderFee = riderFee])
  /\ emitted' = <<>>
  /\ UNCHANGED busVars
  /\ UNCHANGED <<regVars, redis, dbVars, discVars, orderVars>>

\* a new wallet that is given the whole delivery fee
SettleWalletWholeFee(t) ==
  IF t.riderWallet # NoRec
  THEN WalletUpdate(t.redisData.riderId,
                    BalancePatch(t.riderFee, t.riderWallet))
  ELSE WalletCreate(t.redisData.riderId,
                    IF t.delivery = NoRec THEN Null
                    ELSE t.delivery.deliveryFee)

\* the wallet write: update({_id: riderId}, {balance}) or create
SettleWallet(t) ==
  IF t.riderWallet # NoRec
  THEN WalletUpdate(t.redisData.riderId,
                    BalancePatch(t.riderFee, t.riderWallet))
  ELSE WalletCreate(t.redisData.riderId, t.riderFee)

EndCredit(i) ==
  /\ tasks[i].pc = "ed_credit"
  /\ riderWallets' = SettleWallet(tasks[i])
  /\ tasks' = SetTask(i, [tasks[i] EXCEPT !.pc = "ed_fee"])
  /\ emitted' = <<>>
  /\ UNCHANGED busVars
  /\ UNCHANGED <<regVars, redis, deliveries, riders, wallet0, adminFees,
                  notifications, discVars, orderVars>>

\* adminFeeDAOService.create({deliveryRefNumber, rider, adminFee})
EndFee(i) ==
  /\ tasks[i].pc = "ed_fee"
  /\ adminFees' = Append(adminFees,
       [deliveryRefNumber |-> tasks[i].redisData.deliveryRefNumber,
        rider |-> tasks[i].redisData.riderId,
        adminFee |-> tasks[i].adminFee])
  /\ tasks' = SetTask(i, [tasks[i] EXCEPT !.pc = "ed_del"])
  /\ emitted' = <<>>
  /\ UNCHANGED busVars
  /\ UNCHANGED <<regVars, redis, deliveries, riders, riderWallets, wallet0,
                  notifications, discVars, orderVars>>

\* a failure of the admin-fee create that takes the wallet credit back
EndFeeFailsRollback(i) ==
  /\ tasks[i].pc = "ed_fee"
  /\ riderWallets' = IF tasks[i].riderWallet = NoRec
                     THEN SubSeq(riderWallets, 1, Len(riderWallets) - 1)
                     ELSE riderWallets
  /\ tasks' = SetTask(i, [tasks[i] EXCEPT !.pc = "failed"])
  /\ emitted' = <<>>
  /\ UNCHANGED busVars
  /\ UNCHANGED <<regVars, redis, deliveries, riders, wallet0, adminFees,
                  notifications, discVars, orderVars>>

\* adminFeeDAOService.create rejects: the await throws, nothing catches it
\* and endDeliveryNotification ends there
EndFeeFails(i) ==
  /\ tasks[i].pc = "ed_fee"
  /\ tasks' = SetTask(i, [tasks[i] EXCEPT !.pc = "failed"])
  /\ emitted' = <<>>
  /\ UNCHANGED busVars
  /\ UNCHANGED <<regVars, redis, dbVars, discVars, orderVars>>

\* an endDelivery that ends without deleting the cache entry
EndDelKeepsEntry(i) ==
  /\ tasks[i].pc = "ed_del"
  /\ tasks' = SetTask(i, [tasks[i] EXCEPT !.pc = "done"])
  /\ emitted' = <<>>
  /\ UNCHANGED busVars
  /\ UNCHANGED <<regVars, redis, dbVars, discVars, orderVars>>

\* redisService.deleteRedisKey(keys)
EndDel(i) ==
  /\ tasks[i].pc = "ed_del"
  /\ redis' = DeleteRedisKey(PACKAGE_REQUEST_INFO)
  /\ tasks' = SetTask(i, [tasks[i] EXCEPT !.pc = "done"])
  /\ emitted' = <<>>
  /\ UNCHANGED busVars
  /\ UNCHANGED <<regVars, dbVars, discVars, orderVars>>


(* --------------------------- rider discovery -------------------------- *)

\* deliveryDAOService.findAll({customer: customerId}): an array, maybe
\* empty, in the order of the collection
DeliveryFindAll(customerId) ==
  LET ids == SelectSeq(<<"d1", "d2">>,
                       LAMBDA d : /\ d \in DOMAIN deliveries
                                  /\ deliveries[d].customer = customerId)
  IN  [k \in DOMAIN ids |-> deliveries[ids[k]]]

\* a variant of the eligibility test that forgets the active flag
IsEligibleOnlineOnly(_rider) ==
  /\ _rider # NoRec
  /\ _rider.status = "online"

\* _rider?.status === 'online' && _rider?.active
IsEligible(_rider) ==
  /\ _rider # NoRec
  /\ _rider.status = "online"
  /\ _rider.active

\* a scan that visits the returned locations from the far end
RiderScanBackwards(locs, k) == locs[Len(locs) + 1 - k].rider

\* for(const riderLoc of riders): the rider of the k-th findById
RiderScan(locs, k) == locs[k].rider

\* speeds in km/h
BIKE_SPEED == 30
CAR_SPEED == 60
BUS_SPEED == 50
AVERAGE_SPEED == 45

\* vehicleDAOService.findByAny({rider}): the rider's vehicle, or null
VehicleFindByAny(riderId) ==
  IF vehicles[riderId] = "none" THEN NoRec
  ELSE [rider |-> riderId, vehicleType |-> vehicles[riderId]]

\* speedInKmPerHour: 0 unless a vehicle is found
SpeedOf(vehicle) ==
  IF vehicle = NoRec THEN 0
  ELSE IF vehicle.vehicleType = "bike" THEN BIKE_SPEED
  ELSE IF vehicle.vehicleType = "car" THEN CAR_SPEED
  ELSE IF vehicle.vehicleType = "bus" THEN BUS_SPEED
  ELSE AVERAGE_SPEED

\* a number that is NaN, and one that is not
NaN == [nan |-> TRUE]
Num(n) == [nan |-> FALSE, n |-> n]

RECURSIVE SumDistance(_)
SumDistance(locs) ==
  IF locs = <<>> THEN 0 ELSE Head(locs).distance + SumDistance(Tail(locs))

(* Numbers in findRiders are IEEE 754 doubles. A double is held here as
   m * 2^e with m a natural number of at most 53 bits, written as a
   sequence of digits in base 2^15, least significant first. *)

\* minutes of the estimated time to the sender that findRiders sums over
\* the returned locations, every operation rounded as a double rounds it
MinutesOfSum(returned, kmPerHour) ==
  LET
      Limb == 32768
      LimbBits == 15
      Mantissa == 53

      \* the digits of a natural number below 2^31
      RECURSIVE BigOfInt(_)
      BigOfInt(n) == IF n = 0 THEN <<>> ELSE <<n % Limb>> \o BigOfInt(n \div Limb)

      \* the natural number of a short digit sequence
      RECURSIVE BigToInt(_)
      BigToInt(x) == IF x = <<>> THEN 0 ELSE Head(x) + Limb * BigToInt(Tail(x))

      \* without leading zero digits
      RECURSIVE BigTrim(_)
      BigTrim(x) ==
        IF x = <<>> THEN x
        ELSE IF x[Len(x)] = 0 THEN BigTrim(SubSeq(x, 1, Len(x) - 1))
        ELSE x

      \* x * k + carry, for k below 2^15
      RECURSIVE BigMulSmall(_, _, _)
      BigMulSmall(x, k, carry) ==
        IF x = <<>> THEN BigOfInt(carry)
        ELSE LET v == Head(x) * k + carry
             IN  <<v % Limb>> \o BigMulSmall(Tail(x), k, v \div Limb)

      \* quotient and remainder of x by q, for q up to 2^15
      RECURSIVE BigDivRem(_, _)
      BigDivRem(x, q) ==
        IF x = <<>> THEN [q |-> <<>>, r |-> 0]
        ELSE LET hi == BigDivRem(Tail(x), q)
                 v == hi.r * Limb + Head(x)
             IN  [q |-> <<v \div q>> \o hi.q, r |-> v % q]

      RECURSIVE BigAdd(_, _, _)
      BigAdd(x, y, carry) ==
        IF x = <<>> /\ y = <<>> THEN BigOfInt(carry)
        ELSE LET a == IF x = <<>> THEN 0 ELSE Head(x)
                 b == IF y = <<>> THEN 0 ELSE Head(y)
                 v == a + b + carry
             IN  <<v % Limb>> \o BigAdd(IF x = <<>> THEN x ELSE Tail(x),
                                        IF y = <<>> THEN y ELSE Tail(y),
                                        v \div Limb)

      \* x - y - borrow, for x >= y + borrow
      RECURSIVE BigSub(_, _, _)
      BigSub(x, y, borrow) ==
        IF x = <<>> THEN <<>>
        ELSE LET b == IF y = <<>> THEN 0 ELSE Head(y)
                 v == Head(x) - b - borrow
             IN  <<v % Limb>> \o BigSub(Tail(x),
                                        IF y = <<>> THEN y ELSE Tail(y),
                                        IF v < 0 THEN 1 ELSE 0)

      RECURSIVE BitLen(_)
      BitLen(n) == IF n = 0 THEN 0 ELSE 1 + BitLen(n \div 2)

      \* the number of bits of x
      BigBitLen(x) ==
        LET t == BigTrim(x)
        IN  IF t = <<>> THEN 0 ELSE LimbBits * (Len(t) - 1) + BitLen(t[Len(t)])

      \* x * 2^s
      BigShl(x, s) ==
        [k \in 1..(s \div LimbBits) |-> 0] \o BigMulSmall(x, 2 ^ (s % LimbBits), 0)

      \* floor(x / 2^s), and whether bits were lost
      BigShr(x, s) ==
        LET drop == IF s \div LimbBits < Len(x) THEN s \div LimbBits ELSE Len(x)
            dr == BigDivRem(SubSeq(x, drop + 1, Len(x)), 2 ^ (s % LimbBits))
        IN  [q |-> BigTrim(dr.q),
             lost |-> dr.r # 0 \/ \E k \in 1..drop : x[k] # 0]

      \* m * 2^e to the nearest double, ties to even; inexact says that m is
      \* already short of the exact value
      FloatRound(m, e, inexact) ==
        LET len == BigBitLen(m) IN
          IF len <= Mantissa THEN [m |-> BigTrim(m), e |-> e]
          ELSE LET s == len - Mantissa
                   keepHalf == BigShr(m, s - 1)
                   half == Head(keepHalf.q) % 2 = 1
                   q == BigShr(keepHalf.q, 1).q
                   up == half /\ (keepHalf.lost \/ inexact \/ Head(q) % 2 = 1)
               IN  [m |-> IF up THEN BigTrim(BigAdd(q, <<>>, 1)) ELSE q, e |-> e + s]

      FloatOfInt(n) == [m |-> BigOfInt(n), e |-> 0]

      \* a / q in floating point, for a whole number q up to 2^15
      FloatDivSmall(a, q) ==
        IF a.m = <<>> THEN a
        ELSE LET dr == BigDivRem(BigShl(a.m, 5 * LimbBits), q)
             IN  FloatRound(BigTrim(dr.q), a.e - 5 * LimbBits, dr.r # 0)

      \* a + b in floating point
      FloatAdd(a, b) ==
        IF a.m = <<>> THEN b
        ELSE IF b.m = <<>> THEN a
        ELSE LET e == IF a.e < b.e THEN a.e ELSE b.e
             IN  FloatRound(BigAdd(BigShl(a.m, a.e - e), BigShl(b.m, b.e - e), 0),
                            e, FALSE)

      \* Math.floor(a), a whole number below 2^31
      FloatFloor(a) ==
        IF a.e >= 0 THEN BigToInt(BigShl(a.m, a.e))
        ELSE BigToInt(BigShr(a.m, 0 - a.e).q)

      \* a - n for the whole number n = Math.floor(a): exact
      FloatFraction(a, n) ==
        IF a.e >= 0 THEN [m |-> <<>>, e |-> 0]
        ELSE [m |-> BigTrim(BigSub(a.m, BigShl(BigOfInt(n), 0 - a.e), 0)), e |-> a.e]

      \* a * k in floating point, for a whole number k below 2^15
      FloatMulSmall(a, k) == FloatRound(BigMulSmall(a.m, k, 0), a.e, FALSE)

      \* Math.round(a): floor(a + 1/2), computed exactly
      FloatMathRound(a) ==
        LET twice == IF a.e + 1 >= 0 THEN BigToInt(BigShl(a.m, a.e + 1))
                     ELSE BigToInt(BigShr(a.m, 0 - a.e - 1).q)
        IN  (twice + 1) \div 2

      \* estimatedTimeToSender: += elem.distance / 1000 / speedInKmPerHour for
      \* each returned location, in order
      RECURSIVE EstimatedTimeToSender(_, _, _)
      EstimatedTimeToSender(sum, locs, speedInKmPerHour) ==
        IF locs = <<>> THEN sum
        ELSE EstimatedTimeToSender(
               FloatAdd(sum, FloatDivSmall(FloatDivSmall(
                               FloatOfInt(Head(locs).distance), 1000),
                               speedInKmPerHour)),
               Tail(locs), speedInKmPerHour)

      \* Math.round((estimatedTimeToSender - hours) * 60)
      MinutesPart(estimatedTimeToSender) ==
        FloatMathRound(FloatMulSmall(
          FloatFraction(estimatedTimeToSender, FloatFloor(estimatedTimeToSender)),
          60))
  IN  MinutesPart(EstimatedTimeToSender(FloatOfInt(0), returned, kmPerHour))

\* an estimate from the nearest returned rider alone
MinutesOfNearest(locs, speedInKmPerHour) ==
  IF speedInKmPerHour = 0 THEN NaN
  ELSE Num(MinutesOfSum(SubSeq(locs, 1, 1), speedInKmPerHour))

\* minutes: the estimated time to the sender sums distanceKm / speed over
\* every returned rider; hours is its floor and minutes the rest times 60,
\* rounded. With speed 0 the sum is Infinity (or NaN) and minutes is NaN
MinutesOf(locs, speedInKmPerHour) ==
  IF speedInKmPerHour = 0 THEN NaN
  ELSE Num(MinutesOfSum(locs, speedInKmPerHour))

\* arrivalTime: 2 if minutes <= 2, else minutes; NaN <= 2 is false
ArrivalTime(minutes) ==
  IF ~minutes.nan /\ minutes.n <= 2 THEN Num(2) ELSE minutes

\* the snapshot of the chosen rider saved under 'riderInfo'
RiderData(rider) == [_id |-> rider._id, status |-> rider.status]

\* findRiders for the authenticated customer is called; it runs up to
\* deliveryDAOService.findAll
FindRiders(customerId) ==
  /\ Spawn(NewTask("find", [customerId |-> customerId], NoId, "fr_all",
                   "none"))
  /\ emitted' = <<>>
  /\ UNCHANGED busVars
  /\ UNCHANGED <<regVars, redis, dbVars, discVars, orderVars>>

\* the answer of findRiders when it ends without a rider
FindEnds(i, answer) ==
  /\ found' = [found EXCEPT ![tasks[i].data.customerId] = answer]
  /\ tasks' = SetTask(i, [tasks[i] EXCEPT !.pc = "failed"])

\* findAll resolves. `!delivery` is false of an array; with an empty one
\* delivery[delivery.length - 1] is undefined and reading its
\* senderLocation throws. Else the radius query is sent
FindAll(i) ==
  /\ tasks[i].kind = "find"
  /\ tasks[i].pc = "fr_all"
  /\ IF DeliveryFindAll(tasks[i].data.customerId) = <<>>
     THEN FindEnds(i, [kind |-> "TypeError"])
     ELSE /\ tasks' = SetTask(i, [tasks[i] EXCEPT !.pc = "fr_near"])
          /\ UNCHANGED found
  /\ emitted' = <<>>
  /\ UNCHANGED busVars
  /\ UNCHANGED <<regVars, redis, dbVars, nearRiders, vehicles, orderVars>>

\* RiderLocation.aggregate(...).exec() resolves to the locations in the
\* radius, nearest first; none is NotFound, else the first findById is sent
FindNear(i) ==
  /\ tasks[i].kind = "find"
  /\ tasks[i].pc = "fr_near"
  /\ IF nearRiders = <<>>
     THEN FindEnds(i, [kind |-> "NotFound",
                       message |-> "No riders available at the moment"])
     ELSE /\ tasks' = SetTask(i, [tasks[i] EXCEPT
                 !.pc = "fr_rider",
                 !.data = [customerId |-> tasks[i].data.customerId,
                           riders |-> nearRiders, k |-> 1]])
          /\ UNCHANGED found
  /\ emitted' = <<>>
  /\ UNCHANGED busVars
  /\ UNCHANGED <<regVars, redis, dbVars, nearRiders, vehicles, orderVars>>

\* riderDAOService.findById(riderLoc.rider) resolves: an eligible rider
\* ends the loop and its vehicle is read; else the next location, or
\* NotFound after the last one
FindRider(i) ==
  /\ tasks[i].kind = "find"
  /\ tasks[i].pc = "fr_rider"
  /\ LET data == tasks[i].data
         _rider == RiderFindById(RiderScan(data.riders, data.k))
     IN  IF IsEligible(_rider)
         THEN /\ tasks' = SetTask(i, [tasks[i] EXCEPT
                     !.pc = "fr_vehicle",
                     !.data = [customerId |-> data.customerId,
                               riders |-> data.riders, rider |-> _rider]])
              /\ UNCHANGED found
         ELSE IF data.k < Len(data.riders)
         THEN /\ tasks' = SetTask(i, [tasks[i] EXCEPT !.data.k = data.k + 1])
              /\ UNCHANGED found
         ELSE FindEnds(i, [kind |-> "NotFound",
                           message |-> "No rider is currently online"])
  /\ emitted' = <<>>
  /\ UNCHANGED busVars
  /\ UNCHANGED <<regVars, redis, dbVars, nearRiders, vehicles, orderVars>>

\* vehicleDAOService.findByAny({rider}) resolves: the speed and the
\* minutes are computed and the rider's location is read
FindVehicle(i) ==
  /\ tasks[i].kind = "find"
  /\ tasks[i].pc = "fr_vehicle"
  /\ LET data == tasks[i].data
         vehicle == VehicleFindByAny(data.rider._id)
     IN  tasks' = SetTask(i, [tasks[i] EXCEPT
               !.pc = "fr_pin",
               !.data = [customerId |-> data.customerId,
                         rider |-> data.rider,
                         minutes |-> MinutesOf(data.riders, SpeedOf(vehicle))]])
  /\ emitted' = <<>>
  /\ UNCHANGED busVars
  /\ UNCHANGED <<regVars, redis, dbVars, discVars, orderVars>>

\* riderLocationDAOService.findByAny resolves: saveToken('riderInfo', ...)
\* is called and not awaited, and the response is returned
FindPin(i) ==
  /\ tasks[i].kind = "find"
  /\ tasks[i].pc = "fr_pin"
  /\ LET data == tasks[i].data IN
       /\ found' = [found EXCEPT ![data.customerId] =
                      [kind |-> "ok", rider |-> data.rider._id,
                       minutes |-> data.minutes,
                       arrivalTime |-> ArrivalTime(data.minutes)]]
       /\ tasks' = SetTask(i, [tasks[i] EXCEPT !.pc = "fr_save"])
  /\ emitted' = <<>>
  /\ UNCHANGED busVars
  /\ UNCHANGED <<regVars, redis, dbVars, nearRiders, vehicles, orderVars>>

\* the pending saveToken('riderInfo', redisData, 3600) completes
FindSave(i) ==
  /\ tasks[i].kind = "find"
  /\ tasks[i].pc = "fr_save"
  /\ redis' = SaveToken(RIDER_INFO, RiderData(tasks[i].data.rider))
  /\ tasks' = SetTask(i, [tasks[i] EXCEPT !.pc = "done"])
  /\ emitted' = <<>>
  /\ UNCHANGED busVars
  /\ UNCHANGED <<regVars, dbVars, discVars, orderVars>>

FindStep(i) ==
  \/ FindAll(i)
  \/ FindNear(i)
  \/ FindRider(i)
  \/ FindVehicle(i)
  \/ FindPin(i)
  \/ FindSave(i)

\* the match record of a successful discovery: the customer's last delivery
\* and the chosen rider
MatchRecord(customerId) ==
  LET delivery == DeliveryFindAll(customerId)
      lastDelivery == delivery[Len(delivery)]
  IN  [deliveryId |-> lastDelivery._id, riderId |-> found[customerId].rider,
       customerId |-> customerId,
       deliveryRefNumber |-> lastDelivery.deliveryRefNumber]

\* Rider Discovery creates the match record once a rider is found
SaveMatch(customerId) ==
  /\ found[customerId].kind = "ok"
  /\ DeliveryFindAll(customerId) # <<>>
  /\ redis' = SaveToken(PACKAGE_REQUEST_INFO, MatchRecord(customerId))
  /\ emitted' = <<>>
  /\ UNCHANGED busVars
  /\ UNCHANGED <<regVars, dbVars, discVars, orderVars, tasks>>

\* the match record outlives its time to live
CacheExpire ==
  /\ redis[PACKAGE_REQUEST_INFO] # NoRec
  /\ redis' = DeleteRedisKey(PACKAGE_REQUEST_INFO)
  /\ emitted' = <<>>
  /\ UNCHANGED busVars
  /\ UNCHANGED <<regVars, dbVars, discVars, orderVars, tasks>>

(* --------------------------- delivery removal ------------------------- *)

\* deliveryDAOService.deleteById(deliveryId): the collection without it
DeliveryDeleteById(deliveryId) ==
  [d \in DOMAIN deliveries \ {deliveryId} |-> deliveries[d]]

\* DeliveryController.deleteDelivery is called; it runs up to deleteById
DeleteDelivery(deliveryId) ==
  /\ Spawn(NewTask("delete", [deliveryId |-> deliveryId], NoId,
                   "dl_delete", "none"))
  /\ emitted' = <<>>
  /\ UNCHANGED busVars
  /\ UNCHANGED <<regVars, redis, dbVars, discVars, orderVars>>

\* deleteById resolves and the response is returned
DeleteDeliveryDone(i) ==
  /\ tasks[i].kind = "delete"
  /\ tasks[i].pc = "dl_delete"
  /\ deliveries' = DeliveryDeleteById(tasks[i].data.deliveryId)
  /\ tasks' = SetTask(i, [tasks[i] EXCEPT !.pc = "done"])
  /\ emitted' = <<>>
  /\ UNCHANGED busVars
  /\ UNCHANGED <<regVars, redis, riders, riderWallets, wallet0, adminFees,
                  notifications, discVars, orderVars>>

(* --------------------------- delivery creation ------------------------ *)

\* what the customer's wallet holds at the start
InitialBalance == Amt(100)

\* _deliveryFee, the distance times the price per km, as doDelivery computes
\* it: 60.00, 59.996, 59.995 (stored as 59.99) and an amount above the
\* balance
DeliveryFees == {Amt(60), 59 * Scale + 9960, 59 * Scale + 9950, Amt(150)}

\* Number.prototype.toFixed(2) of the double nearest to the amount x: the
\* nearest hundredth of that double. When x lies midway between two
\* hundredths the double decides: x / Scale = (x / 625) / 16, the division
\* by 16 is exact, and the 53-bit quotient of x * 2^s by 625 is rounded up
\* when twice the remainder exceeds 625. A double above the midpoint, or on
\* it, gives the larger hundredth; a double below it the smaller
ToFixed2(x) ==
  LET cent == Scale \div 100
      odd == Scale \div 16
      low == (x \div cent) * cent
      RECURSIVE Up(_)
      Up(y) == IF y >= odd THEN 0 ELSE 1 + Up(2 * y)
      RECURSIVE Down(_)
      Down(y) == IF y < 2 * odd THEN 0 ELSE 1 + Down(y \div 2)
      RECURSIVE Pow2Mod(_)
      Pow2Mod(s) == IF s = 0 THEN 1 ELSE (2 * Pow2Mod(s - 1)) % odd
      rem == ((x % odd) * Pow2Mod(52 + Up(x) - Down(x))) % odd
  IN  IF 2 * (x % cent) < cent THEN low
      ELSE IF 2 * (x % cent) > cent THEN low + cent
      ELSE IF rem = 0 \/ 2 * rem > odd THEN low + cent
      ELSE low

\* walletDAOService.findByAny({customer: customerId})
CustomerWalletFindByAny(customerId) == customerWallets[customerId]

\* walletDAOService.update({_id: wallet._id}, {balance: amount})
CustomerWalletUpdate(id, amount) ==
  [c \in DOMAIN customerWallets |->
     IF customerWallets[c] # NoRec /\ customerWallets[c]._id = id
     THEN [customerWallets[c] EXCEPT !.balance = amount]
     ELSE customerWallets[c]]

\* doDelivery is called with a valid body; it runs up to its wallet read
DoDeliveryReq(customerId, _deliveryFee) ==
  /\ Len(created) + InFlight("deliver") < MaxRecords
  /\ Spawn(NewTask("deliver",
                   [customerId |-> customerId, _deliveryFee |-> _deliveryFee],
                   NoId, "dd_find", "none"))
  /\ emitted' = <<>>
  /\ UNCHANGED busVars
  /\ UNCHANGED <<regVars, redis, dbVars, discVars, orderVars>>

\* the wallet read resolves: no wallet rejects with NotFound, a balance
\* below _deliveryFee with BadRequest; else deliveryDAOService.create is
\* called
DoDeliveryFind(i) ==
  /\ tasks[i].kind = "deliver"
  /\ tasks[i].pc = "dd_find"
  /\ LET wallet == CustomerWalletFindByAny(tasks[i].data.customerId) IN
       tasks' = SetTask(i,
         IF wallet = NoRec THEN [tasks[i] EXCEPT !.pc = "failed"]
         ELSE IF wallet.balance < tasks[i].data._deliveryFee
         THEN [tasks[i] EXCEPT !.pc = "failed"]
         ELSE [tasks[i] EXCEPT !.pc = "dd_create", !.wallet = wallet])
  /\ emitted' = <<>>
  /\ UNCHANGED busVars
  /\ UNCHANGED <<regVars, redis, dbVars, discVars, orderVars>>

\* the delivery is created with deliveryFee: _deliveryFee.toFixed(2)
DoDeliveryCreate(i) ==
  /\ tasks[i].kind = "deliver"
  /\ tasks[i].pc = "dd_create"
  /\ LET delivery == [customer |-> tasks[i].data.customerId,
                      status |-> PENDING,
                      deliveryFee |-> ToFixed2(tasks[i].data._deliveryFee)]
     IN  /\ created' = Append(created, delivery)
         /\ tasks' = SetTask(i, [tasks[i] EXCEPT !.pc = "dd_update",
                                                 !.delivery = delivery])
  /\ emitted' = <<>>
  /\ UNCHANGED busVars
  /\ UNCHANGED <<regVars, redis, dbVars, discVars, customerWallets, edited>>

\* the wallet is written with the balance read before the create, minus
\* the delivery's fee
DoDeliveryUpdate(i) ==
  /\ tasks[i].kind = "deliver"
  /\ tasks[i].pc = "dd_update"
  /\ customerWallets' =
       CustomerWalletUpdate(tasks[i].wallet._id,
                            tasks[i].wallet.balance
                              - tasks[i].delivery.deliveryFee)
  /\ tasks' = SetTask(i, [tasks[i] EXCEPT !.pc = "done"])
  /\ emitted' = <<>>
  /\ UNCHANGED busVars
  /\ UNCHANGED <<regVars, redis, dbVars, discVars, created, edited>>

\* customer c1 has a wallet, customer c2 has none; nothing created yet
InitOrders ==
  /\ customerWallets =
       [c \in Customers |->
          IF c = "c1"
          THEN [_id |-> "cw1", customer |-> "c1", balance |-> InitialBalance]
          ELSE NoRec]
  /\ created = <<>>
  /\ edited = <<>>

(* ---------------------------- delivery edit --------------------------- *)

\* deliveryDAOService.findById(deliveryId)
DeliveryFindById(deliveryId) ==
  IF deliveryId \in DOMAIN deliveries THEN deliveries[deliveryId] ELSE NoRec

\* deliveryDiff: both branches of the comparison compute the same difference
DeliveryDiff(_delivery, _deliveryFee) == _delivery.deliveryFee - _deliveryFee

\* doEditDelivery is called with a valid body; it runs up to findById
DoEditDeliveryReq(deliveryId, _deliveryFee) ==
  /\ Len(edited) + InFlight("edit") < MaxRecords
  /\ Spawn(NewTask("edit",
                   [deliveryId |-> deliveryId, _deliveryFee |-> _deliveryFee],
                   NoId, "de_find", "none"))
  /\ emitted' = <<>>
  /\ UNCHANGED busVars
  /\ UNCHANGED <<regVars, redis, dbVars, discVars, orderVars>>

\* findById resolves: no delivery rejects with NotFound, a status other
\* than pending with BadRequest; else the customer's wallet is read
DoEditFind(i) ==
  /\ tasks[i].kind = "edit"
  /\ tasks[i].pc = "de_find"
  /\ LET _delivery == DeliveryFindById(tasks[i].data.deliveryId) IN
       tasks' = SetTask(i,
         IF _delivery = NoRec THEN [tasks[i] EXCEPT !.pc = "failed"]
         ELSE IF _delivery.status # PENDING
         THEN [tasks[i] EXCEPT !.pc = "failed"]
         ELSE [tasks[i] EXCEPT !.pc = "de_wallet", !.delivery = _delivery])
  /\ emitted' = <<>>
  /\ UNCHANGED busVars
  /\ UNCHANGED <<regVars, redis, dbVars, discVars, orderVars>>

\* the wallet read resolves: no wallet rejects with NotFound, a fee raised
\* by more than the balance with BadRequest; else updateByAny is called
DoEditWallet(i) ==
  /\ tasks[i].kind = "edit"
  /\ tasks[i].pc = "de_wallet"
  /\ LET wallet == CustomerWalletFindByAny(tasks[i].delivery.customer)
         deliveryDiff == DeliveryDiff(tasks[i].delivery,
                                      tasks[i].data._deliveryFee)
     IN  tasks' = SetTask(i,
           IF wallet = NoRec THEN [tasks[i] EXCEPT !.pc = "failed"]
           ELSE IF deliveryDiff < 0 /\ 0 - deliveryDiff > wallet.balance
           THEN [tasks[i] EXCEPT !.pc = "failed"]
           ELSE [tasks[i] EXCEPT !.pc = "de_update", !.wallet = wallet])
  /\ emitted' = <<>>
  /\ UNCHANGED busVars
  /\ UNCHANGED <<regVars, redis, dbVars, discVars, orderVars>>

\* deliveryDAOService.updateByAny({_id: _delivery._id}, {status: PENDING,
\* deliveryFee: _deliveryFee.toFixed(2), customer: _delivery.customer, ...})
DoEditUpdate(i) ==
  /\ tasks[i].kind = "edit"
  /\ tasks[i].pc = "de_update"
  /\ LET id == tasks[i].delivery._id IN
       IF id \in DOMAIN deliveries
       THEN LET delivery ==
                  [deliveries[id] EXCEPT
                     !.status = PENDING,
                     !.deliveryFee = ToFixed2(tasks[i].data._deliveryFee),
                     !.customer = tasks[i].delivery.customer]
            IN  /\ deliveries' = [deliveries EXCEPT ![id] = delivery]
                /\ edited' = Append(edited, delivery)
                /\ tasks' = SetTask(i, [tasks[i] EXCEPT !.pc = "de_balance"])
       ELSE \* updateByAny resolves to null: `if(delivery)` skips the wallet
            /\ UNCHANGED <<deliveries, edited>>
            /\ tasks' = SetTask(i, [tasks[i] EXCEPT !.pc = "done"])
  /\ emitted' = <<>>
  /\ UNCHANGED busVars
  /\ UNCHANGED <<regVars, redis, riders, riderWallets, wallet0, adminFees,
                  notifications, discVars, customerWallets, created>>

\* the wallet is written with (the balance read before the update, plus
\* deliveryDiff).toFixed(2)
DoEditBalance(i) ==
  /\ tasks[i].kind = "edit"
  /\ tasks[i].pc = "de_balance"
  /\ customerWallets' =
       CustomerWalletUpdate(tasks[i].wallet._id,
                            ToFixed2(tasks[i].wallet.balance
                                       + DeliveryDiff(tasks[i].delivery,
                                                      tasks[i].data._deliveryFee)))
  /\ tasks' = SetTask(i, [tasks[i] EXCEPT !.pc = "done"])
  /\ emitted' = <<>>
  /\ UNCHANGED busVars
  /\ UNCHANGED <<regVars, redis, dbVars, discVars, created, edited>>

(* ----------------------------- message bus ---------------------------- *)

\* the expiration of a package request, in ticks of the broker's clock
EXPIRATION_AMQP_MESSAGE == 2

\* the calls of listenForPackageRequests, each with a queue of its own
Listeners == {"q1", "q2"}

\* what a client sends with packageRequest
PackageRequests == {[customerId |-> "c1", senderName |-> "sender1"]}

\* a message's time to live has run out
Expired(msg) ==
  /\ "expiration" \in DOMAIN msg.options
  /\ clock >= msg.at + msg.options.expiration

\* channel.publish: the broker stamps the message with its arrival. The
\* fanout exchange copies it to every queue bound to it at the time; with no
\* queue bound the message is dropped
Publish(content, options) ==
  LET msg == [content |-> content, options |-> options, at |-> clock,
              seq |-> Len(published) + 1]
  IN  /\ published' = Append(published, msg)
      /\ queues' = [q \in Listeners |->
                      IF queues[q].state \in {"bound", "consuming"}
                      THEN [queues[q] EXCEPT !.msgs = Append(@, msg)]
                      ELSE queues[q]]

\* a variant of the request's publish options with no expiration
RequestOptionsNone == [persistent |-> FALSE]

\* { expiration }
RequestOptions == [expiration |-> EXPIRATION_AMQP_MESSAGE]

\* socket.on('packageRequest')
PackageRequestEvt(socket, request) ==
  /\ IF request = NoRec
     THEN /\ emitted' = Emit(socket, "requestAlreadySent",
                             "Request has already been sent.")
          /\ UNCHANGED tasks
     ELSE /\ Len(published) + InFlight("submit") + InFlight("request")
               < MaxPublish
          /\ Spawn(NewTask("submit", request, socket, "sp_assert", "none"))
          /\ emitted' = <<>>
  /\ UNCHANGED busVars
  /\ UNCHANGED <<regVars, redis, dbVars, discVars, orderVars>>

\* this.socketMap.get(id) on the service a call runs on. The controller's
\* service is constructed by the controller module and no socket is ever
\* registered with it
SocketOf(service, id) == IF service = "ctl" THEN NoId ELSE socketMap[id]

\* this.channel! can be used for a broker call. The controller's channel
\* is null (0) until connectToRabbitMQ and after disconnectFromRabbitMQ,
\* and a closed channel, or one on a closed connection, refuses every
\* call. The service that serves the sockets holds the channel it was
\* started with
Usable(service, channel) ==
  \/ service = "io"
  \/ /\ channel # 0
     /\ channel \notin controller.closedChannels
     /\ channel \notin controller.closedConnections

\* DeliveryController.packageRequest is called: connectToRabbitMQ up to
\* amqp.connect
PackageRequestCtl(socket) ==
  /\ Len(published) + InFlight("submit") + InFlight("request") < MaxPublish
  /\ controller.calls < MaxConnect
  /\ Spawn([NewTask("request", NoRec, socket, "connect", "none") EXCEPT
              !.service = "ctl", !.channel = controller.calls + 1])
  /\ controller' = [controller EXCEPT !.calls = @ + 1]
  /\ emitted' = <<>>
  /\ UNCHANGED <<clock, queues, published, received, pendingRequests, assigned>>
  /\ UNCHANGED <<regVars, redis, dbVars, discVars, orderVars>>

\* DeliveryController.sendDriverResponse is called: connectToRabbitMQ up
\* to amqp.connect
SendDriverResponseCtl ==
  /\ controller.calls < MaxConnect
  /\ Spawn([NewTask("respond", [driverId |-> 123, availability |-> TRUE],
                    NoId, "connect", "none") EXCEPT
              !.service = "ctl", !.channel = controller.calls + 1])
  /\ controller' = [controller EXCEPT !.calls = @ + 1]
  /\ emitted' = <<>>
  /\ UNCHANGED <<clock, queues, published, received, pendingRequests, assigned>>
  /\ UNCHANGED <<regVars, redis, dbVars, discVars, orderVars>>

\* connectToRabbitMQ after amqp.connect: this.connection is the new
\* connection and createChannel is called on it
CtlConnect(i) ==
  /\ tasks[i].kind \in {"request", "respond"}
  /\ tasks[i].pc = "connect"
  /\ controller' = [controller EXCEPT !.connection = tasks[i].channel]
  /\ tasks' = [tasks EXCEPT ![i].pc = "channel"]
  /\ emitted' = <<>>
  /\ UNCHANGED <<clock, queues, published, received, pendingRequests, assigned>>
  /\ UNCHANGED <<regVars, redis, dbVars, discVars, orderVars>>

\* connectToRabbitMQ after createChannel: this.channel is the new channel,
\* unless its connection was closed in the meantime and the call rejects.
\* packageRequest goes on to getToken('riderInfo'); sendDriverResponse
\* calls the service's sendDriverResponse, which runs up to assertExchange
CtlChannel(i) ==
  /\ tasks[i].kind \in {"request", "respond"}
  /\ tasks[i].pc = "channel"
  /\ IF tasks[i].channel \in controller.closedConnections
     THEN /\ tasks' = SetTask(i, [tasks[i] EXCEPT !.pc = "failed"])
          /\ UNCHANGED controller
     ELSE /\ controller' = [controller EXCEPT !.channel = tasks[i].channel]
          /\ tasks' = [tasks EXCEPT ![i].pc =
                         IF tasks[i].kind = "request" THEN "pr_get"
                         ELSE "dr_assert"]
  /\ emitted' = <<>>
  /\ UNCHANGED <<clock, queues, published, received, pendingRequests, assigned>>
  /\ UNCHANGED <<regVars, redis, dbVars, discVars, orderVars>>

\* packageRequest after getToken('riderInfo'): the snapshot, or null, is the
\* request that submitPackageRequest is called with; it runs up to
\* assertExchange, which throws when this.channel is null or closed
CtlGet(i) ==
  /\ tasks[i].kind = "request"
  /\ tasks[i].pc = "pr_get"
  /\ tasks' = IF Usable("ctl", controller.channel)
              THEN [tasks EXCEPT ![i] =
                      [NewTask("submit", GetToken(RIDER_INFO), tasks[i].socket,
                               "sp_assert", "none") EXCEPT
                         !.service = "ctl", !.channel = controller.channel]]
              ELSE SetTask(i, [tasks[i] EXCEPT !.pc = "failed"])
  /\ emitted' = <<>>
  /\ UNCHANGED busVars
  /\ UNCHANGED <<regVars, redis, dbVars, discVars, orderVars>>

\* the service's sendDriverResponse after assertExchange: publish the
\* response on driver_responses; the controller then calls
\* disconnectFromRabbitMQ, which runs up to this.channel.close(). The
\* assertExchange rejects, or the publish throws, when the channel was
\* closed or this.channel set to null in the meantime
RespondPublish(i) ==
  /\ tasks[i].kind = "respond"
  /\ tasks[i].pc = "dr_assert"
  /\ IF /\ Usable("ctl", tasks[i].channel)
        /\ Usable("ctl", controller.channel)
     THEN /\ controller' = [controller EXCEPT
                              !.responses = Append(@, tasks[i].data),
                              !.closedChannels = @ \cup {controller.channel}]
          /\ tasks' = [tasks EXCEPT ![i].pc = "dc_channel",
                                    ![i].channel = controller.channel]
     ELSE /\ tasks' = SetTask(i, [tasks[i] EXCEPT !.pc = "failed"])
          /\ UNCHANGED controller
  /\ emitted' = <<>>
  /\ UNCHANGED <<clock, queues, published, received, pendingRequests, assigned>>
  /\ UNCHANGED <<regVars, redis, dbVars, discVars, orderVars>>

\* disconnectFromRabbitMQ after channel.close(): this.channel = null; if
\* this.connection is not null its close() is called, which throws on a
\* connection already closed
RespondChannelClosed(i) ==
  /\ tasks[i].kind = "respond"
  /\ tasks[i].pc = "dc_channel"
  /\ LET connection == controller.connection IN
       IF connection = 0
       THEN /\ controller' = [controller EXCEPT !.channel = 0]
            /\ tasks' = SetTask(i, [tasks[i] EXCEPT !.pc = "done"])
       ELSE IF connection \in controller.closedConnections
       THEN /\ controller' = [controller EXCEPT !.channel = 0]
            /\ tasks' = SetTask(i, [tasks[i] EXCEPT !.pc = "failed"])
       ELSE /\ controller' = [controller EXCEPT
                                !.channel = 0,
                                !.closedConnections = @ \cup {connection}]
            /\ tasks' = [tasks EXCEPT ![i].pc = "dc_connection",
                                      ![i].channel = connection]
  /\ emitted' = <<>>
  /\ UNCHANGED <<clock, queues, published, received, pendingRequests, assigned>>
  /\ UNCHANGED <<regVars, redis, dbVars, discVars, orderVars>>

\* disconnectFromRabbitMQ after connection.close(): this.connection = null
RespondConnectionClosed(i) ==
  /\ tasks[i].kind = "respond"
  /\ tasks[i].pc = "dc_connection"
  /\ controller' = [controller EXCEPT !.connection = 0]
  /\ tasks' = SetTask(i, [tasks[i] EXCEPT !.pc = "done"])
  /\ emitted' = <<>>
  /\ UNCHANGED <<clock, queues, published, received, pendingRequests, assigned>>
  /\ UNCHANGED <<regVars, redis, dbVars, discVars, orderVars>>

\* a variant of the publish step that forgets the request
SubmitPublishUnrecorded(i) ==
  /\ tasks[i].kind = "submit"
  /\ tasks[i].pc = "sp_assert"
  /\ IF /\ Usable(tasks[i].service, tasks[i].channel)
        /\ Usable(tasks[i].service, controller.channel)
     THEN /\ Publish(tasks[i].data, RequestOptions)
          /\ tasks' = [tasks EXCEPT ![i] =
                         [NewTask("assign", tasks[i].data, NoId, "ap_get",
                                  "none") EXCEPT
                            !.service = tasks[i].service]]
     ELSE /\ tasks' = SetTask(i, [tasks[i] EXCEPT !.pc = "failed"])
          /\ UNCHANGED <<queues, published>>
  /\ emitted' = <<>>
  /\ UNCHANGED <<clock, received, pendingRequests, assigned, controller>>
  /\ UNCHANGED <<regVars, redis, dbVars, discVars, orderVars>>

\* submitPackageRequest after assertExchange: publish with the expiration,
\* start assignPackageToDriver (it runs up to its cache read) and push the
\* request on the service's pendingRequests. The assertExchange rejects, or
\* the publish throws, when the service's channel was closed or this.channel
\* set to null in the meantime: nothing is published, assigned or pushed
SubmitPublish(i) ==
  /\ tasks[i].kind = "submit"
  /\ tasks[i].pc = "sp_assert"
  /\ IF /\ Usable(tasks[i].service, tasks[i].channel)
        /\ Usable(tasks[i].service, controller.channel)
     THEN /\ Publish(tasks[i].data, RequestOptions)
          /\ tasks' = [tasks EXCEPT ![i] =
                         [NewTask("assign", tasks[i].data, NoId, "ap_get",
                                  "none") EXCEPT
                            !.service = tasks[i].service]]
          /\ IF tasks[i].service = "ctl"
             THEN /\ controller' = [controller EXCEPT
                                      !.pendingRequests =
                                         Append(@, tasks[i].data)]
                  /\ UNCHANGED pendingRequests
             ELSE /\ pendingRequests' = Append(pendingRequests, tasks[i].data)
                  /\ UNCHANGED controller
     ELSE /\ tasks' = SetTask(i, [tasks[i] EXCEPT !.pc = "failed"])
          /\ UNCHANGED <<queues, published, pendingRequests, controller>>
  /\ emitted' = <<>>
  /\ UNCHANGED <<clock, received, assigned>>
  /\ UNCHANGED <<regVars, redis, dbVars, discVars, orderVars>>

\* a variant of the assignment that gives up when the rider has no socket
AssignGetNeedsSocket(i) ==
  /\ tasks[i].kind = "assign"
  /\ tasks[i].pc = "ap_get"
  /\ LET driver == GetToken(PACKAGE_REQUEST_INFO) IN
       IF driver # NoRec /\ SocketOf(tasks[i].service, driver.riderId) # NoId
       THEN /\ emitted' = Emit(SocketOf(tasks[i].service, driver.riderId),
                               "notification", driver.customerId)
            /\ tasks' = SetTask(i,
                 IF Usable(tasks[i].service, controller.channel)
                 THEN [tasks[i] EXCEPT !.pc = "ap_assert",
                                       !.redisData = driver,
                                       !.channel = IF tasks[i].service = "ctl"
                                                   THEN controller.channel
                                                   ELSE 0]
                 ELSE [tasks[i] EXCEPT !.pc = "failed"])
       ELSE /\ emitted' = <<>>
            /\ tasks' = SetTask(i, [tasks[i] EXCEPT !.pc = "done"])
  /\ UNCHANGED busVars
  /\ UNCHANGED <<regVars, redis, dbVars, discVars, orderVars>>

\* assignPackageToDriver after getAvailableDriver: with a candidate, send
\* the notification to the rider's socket if the service has one for it and
\* call assertExchange, which throws when this.channel is null or closed;
\* with none, build the NotFound response and end
AssignGet(i) ==
  /\ tasks[i].kind = "assign"
  /\ tasks[i].pc = "ap_get"
  /\ LET driver == GetToken(PACKAGE_REQUEST_INFO) IN
       IF driver # NoRec
       THEN LET driverSocket == SocketOf(tasks[i].service, driver.riderId) IN
            /\ emitted' = IF driverSocket # NoId
                          THEN Emit(driverSocket, "notification",
                                    driver.customerId)
                          ELSE <<>>
            /\ tasks' = SetTask(i,
                 IF Usable(tasks[i].service, controller.channel)
                 THEN [tasks[i] EXCEPT !.pc = "ap_assert",
                                       !.redisData = driver,
                                       !.channel = IF tasks[i].service = "ctl"
                                                   THEN controller.channel
                                                   ELSE 0]
                 ELSE [tasks[i] EXCEPT !.pc = "failed"])
       ELSE /\ emitted' = <<>>
            /\ tasks' = SetTask(i, [tasks[i] EXCEPT !.pc = "done"])
  /\ UNCHANGED busVars
  /\ UNCHANGED <<regVars, redis, dbVars, discVars, orderVars>>

\* a variant of the publish that leaves assignedTo out
AssignPublishBare(i) ==
  /\ tasks[i].kind = "assign"
  /\ tasks[i].pc = "ap_assert"
  /\ IF /\ Usable(tasks[i].service, tasks[i].channel)
        /\ Usable(tasks[i].service, controller.channel)
     THEN assigned' = Append(assigned, [request |-> tasks[i].data])
     ELSE UNCHANGED assigned
  /\ tasks' = SetTask(i, [tasks[i] EXCEPT !.pc = "done"])
  /\ emitted' = <<>>
  /\ UNCHANGED <<clock, queues, published, received, pendingRequests,
                  controller>>
  /\ UNCHANGED <<regVars, redis, dbVars, discVars, orderVars>>

\* assignPackageToDriver after assertExchange: publish the assigned
\* package. The assertExchange rejects, or the publish throws, when the
\* service's channel was closed or this.channel set to null in the meantime
AssignPublish(i) ==
  /\ tasks[i].kind = "assign"
  /\ tasks[i].pc = "ap_assert"
  /\ IF /\ Usable(tasks[i].service, tasks[i].channel)
        /\ Usable(tasks[i].service, controller.channel)
     THEN assigned' = Append(assigned, [request |-> tasks[i].data,
                                        assignedTo |-> tasks[i].redisData.riderId])
     ELSE UNCHANGED assigned
  /\ tasks' = SetTask(i, [tasks[i] EXCEPT !.pc = "done"])
  /\ emitted' = <<>>
  /\ UNCHANGED <<clock, queues, published, received, pendingRequests,
                  controller>>
  /\ UNCHANGED <<regVars, redis, dbVars, discVars, orderVars>>

\* listenForPackageRequests: assertExchange
ListenAssertExchange(q) ==
  /\ queues[q].state = "none"
  /\ queues' = [queues EXCEPT ![q].state = "exchange"]
  /\ emitted' = <<>>
  /\ UNCHANGED <<clock, published, received, pendingRequests, assigned,
                  controller>>
  /\ UNCHANGED <<regVars, redis, dbVars, discVars, orderVars, tasks>>

\* listenForPackageRequests: assertQueue('', { exclusive: true })
ListenAssertQueue(q) ==
  /\ queues[q].state = "exchange"
  /\ queues' = [queues EXCEPT ![q].state = "declared"]
  /\ emitted' = <<>>
  /\ UNCHANGED <<clock, published, received, pendingRequests, assigned,
                  controller>>
  /\ UNCHANGED <<regVars, redis, dbVars, discVars, orderVars, tasks>>

\* listenForPackageRequests: bindQueue; the queue gets what is published
\* from now on
ListenBindQueue(q) ==
  /\ queues[q].state = "declared"
  /\ queues' = [queues EXCEPT ![q].state = "bound",
                              ![q].bindSeq = Len(published)]
  /\ emitted' = <<>>
  /\ UNCHANGED <<clock, published, received, pendingRequests, assigned,
                  controller>>
  /\ UNCHANGED <<regVars, redis, dbVars, discVars, orderVars, tasks>>

\* listenForPackageRequests: consume(queue, callback, { noAck: true })
ListenConsume(q) ==
  /\ queues[q].state = "bound"
  /\ queues' = [queues EXCEPT ![q].state = "consuming"]
  /\ emitted' = <<>>
  /\ UNCHANGED <<clock, published, received, pendingRequests, assigned,
                  controller>>
  /\ UNCHANGED <<regVars, redis, dbVars, discVars, orderVars, tasks>>

\* a variant of the consumer callback that skips a request this process
\* has submitted itself
BrokerDeliverOnce(q) ==
  /\ queues[q].state = "consuming"
  /\ queues[q].msgs # <<>>
  /\ ~Expired(Head(queues[q].msgs))
  /\ LET message == Head(queues[q].msgs) IN
       /\ received' = Append(received, [queue |-> q, seq |-> message.seq,
                                        at |-> clock])
       /\ IF \E k \in DOMAIN pendingRequests :
                 pendingRequests[k] = message.content
          THEN UNCHANGED tasks
          ELSE Spawn(NewTask("assign", message.content, NoId, "ap_get",
                             "none"))
  /\ queues' = [queues EXCEPT ![q].msgs = Tail(@)]
  /\ emitted' = <<>>
  /\ UNCHANGED <<clock, published, pendingRequests, assigned,
                  controller>>
  /\ UNCHANGED <<regVars, redis, dbVars, discVars, orderVars>>

\* the broker hands the head of a queue to its consumer unless it has
\* expired; the callback parses it and starts assignPackageToDriver
BrokerDeliver(q) ==
  /\ queues[q].state = "consuming"
  /\ queues[q].msgs # <<>>
  /\ ~Expired(Head(queues[q].msgs))
  /\ LET message == Head(queues[q].msgs) IN
       /\ received' = Append(received, [queue |-> q, seq |-> message.seq,
                                        at |-> clock])
       /\ Spawn(NewTask("assign", message.content, NoId, "ap_get", "none"))
  /\ queues' = [queues EXCEPT ![q].msgs = Tail(@)]
  /\ emitted' = <<>>
  /\ UNCHANGED <<clock, published, pendingRequests, assigned,
                  controller>>
  /\ UNCHANGED <<regVars, redis, dbVars, discVars, orderVars>>

\* the broker discards an expired message
BrokerExpire(q) ==
  /\ queues[q].msgs # <<>>
  /\ Expired(Head(queues[q].msgs))
  /\ queues' = [queues EXCEPT ![q].msgs = Tail(@)]
  /\ emitted' = <<>>
  /\ UNCHANGED <<clock, published, received, pendingRequests, assigned,
                  controller>>
  /\ UNCHANGED <<regVars, redis, dbVars, discVars, orderVars, tasks>>

\* time passes
Tick ==
  /\ clock < MaxClock
  /\ clock' = clock + 1
  /\ emitted' = <<>>
  /\ UNCHANGED <<queues, published, received, pendingRequests, assigned,
                  controller>>
  /\ UNCHANGED <<regVars, redis, dbVars, discVars, orderVars, tasks>>

\* nothing published, no listener started
InitBus ==
  /\ clock = 0
  /\ queues = [q \in Listeners |->
                 [state |-> "none", bindSeq |-> 0, msgs |-> <<>>]]
  /\ published = <<>>
  /\ received = <<>>
  /\ pendingRequests = <<>>
  /\ assigned = <<>>
  /\ controller = [calls |-> 0, connection |-> 0, channel |-> 0,
                   closedChannels |-> {}, closedConnections |-> {},
                   pendingRequests |-> <<>>, responses |-> <<>>]

(* ----------------------- the lifecycle specification ------------------ *)

DeliveryDoc(id, customer, fee, ref) ==
  [_id |-> id, customer |-> customer, status |-> PENDING, rider |-> NoId,
   deliveryFee |-> fee, deliveryRefNumber |-> ref]

RiderDoc(id, status, active) ==
  [_id |-> id, status |-> status, active |-> active, busy |-> FALSE]

DriverResponses ==
  [riderId : Riders, customerId : Customers, availability : BOOLEAN]

\* the database, the cache and the handlers at the start: two customers'
\* pending deliveries, two riders, maybe a wallet. matches holds pairs of
\* the rider an earlier findRiders call of customer c1 has answered with,
\* NoId for no call yet, and whether the match record of that answer is in
\* the cache: after a call the rider's snapshot is in the cache and the
\* answer is known
InitRestWith(fees, wallets, statuses, matches) ==
  /\ announced = <<>>
  /\ unserved = {}
  /\ nearRiders = <<[rider |-> "r1", distance |-> 1000],
                    [rider |-> "r2", distance |-> 2000]>>
  /\ \E fee \in fees, status \in statuses :
       deliveries = [d \in DeliveryIds |->
                       IF d = "d1"
                       THEN [DeliveryDoc("d1", "c1", fee, "ref1")
                               EXCEPT !.status = status]
                       ELSE DeliveryDoc("d2", "c2", 12 * Scale + 3400, "ref2")]
  /\ \E match \in matches :
       /\ found = [c \in Customers |->
                     IF c = "c1" /\ match[1] # NoId
                     THEN [kind |-> "ok", rider |-> match[1],
                           minutes |-> MinutesOf(nearRiders, BIKE_SPEED),
                           arrivalTime |->
                             ArrivalTime(MinutesOf(nearRiders, BIKE_SPEED))]
                     ELSE [kind |-> "none"]]
       /\ redis = [k \in {PACKAGE_REQUEST_INFO, RIDER_INFO} |->
                     IF match[1] = NoId THEN NoRec
                     ELSE IF k = RIDER_INFO
                     THEN RiderData(RiderDoc(match[1], "online", TRUE))
                     ELSE IF match[2] THEN MatchRecord("c1")
                     ELSE NoRec]
  /\ riders = [r \in Riders |-> RiderDoc(r, "online", TRUE)]
  /\ vehicles = [r \in Riders |-> "bike"]
  /\ InitOrders
  /\ riderWallets \in wallets
  /\ wallet0 = riderWallets
  /\ adminFees = <<>>
  /\ notifications = <<>>
  /\ emitted = <<>>
  /\ tasks = [i \in 1..MaxTasks |-> Idle]
  /\ InitBus

\* customer c1 has announced itself, customer c2 maybe
InitWith(fees, wallets, sockets2, matches) ==
  /\ socketMap \in {[id \in Identities |->
                       IF id = "c1" THEN "s1"
                       ELSE IF id = "c2" THEN s ELSE NoId] : s \in sockets2}
  /\ InitRestWith(fees, wallets, {PENDING}, matches)

RelayStep(i) ==
  \/ RelayGet(i)
  \/ RelayUpdate(i)
  \/ RelayDel(i)
  \/ AvailGet(i)
  \/ AvailCreate(i)

StartStep(i) ==
  \/ StartGet(i)
  \/ StartStatus(i)
  \/ StartBusy(i)

EndStep(i) ==
  \/ EndGet(i)
  \/ EndStatus(i)
  \/ EndBusy(i)
  \/ EndWallet(i)
  \/ EndCredit(i)
  \/ EndFee(i)
  \/ EndDel(i)

\* Rider Discovery for a customer: the call, its steps and the match record
\* of its answer
Discover(customerId) ==
  \/ FindRiders(customerId)
  \/ \E i \in DOMAIN tasks :
       /\ tasks[i].kind = "find"
       /\ tasks[i].data.customerId = customerId
       /\ FindStep(i)
  \/ SaveMatch(customerId)

Init == InitWith({Amt(100)}, {<<>>}, {NoId}, {<<NoId, FALSE>>})


Next ==
  \/ Discover("c1")
  \/ CacheExpire
  \/ \E r \in DriverResponses : DriverResponseMsg(r)
  \/ \E data \in {[customerId |-> c, riderArrived |-> TRUE] :
                    c \in Customers} \cup {NoRec} : ArrivedEvt(data)
  \/ \E c \in Customers : StartDeliveryEvt([customerId |-> c])
  \/ \E c \in Customers : EndDeliveryEvt([customerId |-> c])
  \/ \E i \in DOMAIN tasks : RelayStep(i) \/ StartStep(i) \/ EndStep(i)

Spec == Init /\ [][Next]_vars

InitSettle ==
  InitWith({0, 4 * Scale + 9900, Amt(14), Amt(15), Amt(100)},
           {<<>>, <<[_id |-> "w1", rider |-> "r1", balance |-> Amt(50)]>>},
           {NoId}, {<<"r1", FALSE>>})

NextSettle ==
  \/ SaveMatch("c1")
  \/ \E c \in Customers : EndDeliveryEvt([customerId |-> c])
  \/ \E i \in DOMAIN tasks : EndStep(i)

SpecSettle == InitSettle /\ [][NextSettle]_vars

(* ---------------------- the removal specification --------------------- *)

\* settlement next to deleteDelivery calls
NextRemoval ==
  \/ NextSettle
  \/ \E d \in DeliveryIds : DeleteDelivery(d)
  \/ \E i \in DOMAIN tasks : DeleteDeliveryDone(i)

SpecRemoval == InitSettle /\ [][NextRemoval]_vars

(* ---------------------- the lifecycle specification ------------------ *)

\* customer c1 is connected, customer c2 is not
NextLife ==
  \/ SaveMatch("c1")
  \/ \E data \in {[customerId |-> c, riderArrived |-> TRUE] :
                    c \in Customers} \cup {NoRec} : ArrivedEvt(data)
  \/ \E c \in Customers : StartDeliveryEvt([customerId |-> c])
  \/ \E c \in Customers : EndDeliveryEvt([customerId |-> c])
  \/ \E i \in DOMAIN tasks : StartStep(i) \/ EndStep(i)

\* findRiders has answered customer c1 with rider r1
SpecLife ==
  /\ InitWith({Amt(100)}, {<<>>}, {NoId}, {<<"r1", FALSE>>})
  /\ [][NextLife]_vars

(* --------------------- the two-customer specification ---------------- *)

NextTwo ==
  \/ \E c \in Customers : Discover(c)
  \/ \E r \in DriverResponses : r.availability /\ DriverResponseMsg(r)
  \/ \E c \in Customers : StartDeliveryEvt([customerId |-> c])
  \/ \E i \in DOMAIN tasks : RelayStep(i) \/ StartStep(i)

\* both customers are connected, c1 on s1 and c2 on s2
SpecTwo ==
  InitWith({Amt(100)}, {<<>>}, {"s2"}, {<<NoId, FALSE>>}) /\ [][NextTwo]_vars

(* ----------------------- the failure specification ------------------- *)

\* settlement where the admin-fee create may fail
NextFail ==
  \/ SaveMatch("c1")
  \/ EndDeliveryEvt([customerId |-> "c1"])
  \/ \E i \in DOMAIN tasks : EndStep(i)
  \/ \E i \in DOMAIN tasks : EndFeeFails(i)

SpecFail == InitSettle /\ [][NextFail]_vars

(* ------------------------ the order specification -------------------- *)

NextOrder ==
  \/ \E c \in Customers, fee \in DeliveryFees : DoDeliveryReq(c, fee)
  \/ \E i \in DOMAIN tasks :
       DoDeliveryFind(i) \/ DoDeliveryCreate(i) \/ DoDeliveryUpdate(i)

SpecOrder == Init /\ [][NextOrder]_vars

(* ------------------------- the edit specification -------------------- *)

\* _deliveryFee as doEditDelivery computes it from the edited route and
\* vehicle: the fees of doDelivery and 250.00
NextEdit ==
  \/ \E d \in DeliveryIds, fee \in DeliveryFees \cup {Amt(250)} :
       DoEditDeliveryReq(d, fee)
  \/ \E i \in DOMAIN tasks :
       DoEditFind(i) \/ DoEditWallet(i) \/ DoEditUpdate(i) \/ DoEditBalance(i)

\* delivery d1 in any status at the start
SpecEdit ==
  /\ socketMap = [id \in Identities |-> IF id = "c1" THEN "s1" ELSE NoId]
  /\ InitRestWith({Amt(100)}, {<<>>}, {PENDING, ON_TRANSIT, DELIVERED},
                  {<<NoId, FALSE>>})
  /\ [][NextEdit]_vars

(* ------------------------ the cache specification -------------------- *)

\* the life of one customer's match record: the relay of r1's answers, the
\* start and the end of the delivery. The clients send their events in any
\* order and as often as they like and the handlers run concurrently
NextCache ==
  \/ \E availability \in BOOLEAN :
       DriverResponseMsg([riderId |-> "r1", customerId |-> "c1",
                          availability |-> availability])
  \/ StartDeliveryEvt([customerId |-> "c1"])
  \/ EndDeliveryEvt([customerId |-> "c1"])
  \/ \E i \in DOMAIN tasks : RelayStep(i) \/ StartStep(i) \/ EndStep(i)

\* findRiders has answered customer c1 with rider r1; the match record has
\* been saved, or not
SpecCache ==
  /\ InitWith({Amt(100)}, {<<>>}, {NoId}, {<<"r1", FALSE>>, <<"r1", TRUE>>})
  /\ [][NextCache]_vars

(* ------------------------ the relay specification -------------------- *)

NextRelay ==
  \/ SaveMatch("c1")
  \/ CacheExpire
  \/ \E r \in DriverResponses : DriverResponseMsg(r)
  \/ \E i \in DOMAIN tasks : RelayStep(i)

\* findRiders has answered customer c1 with rider r1
SpecRelay ==
  /\ InitWith({Amt(100)}, {<<>>}, {NoId}, {<<"r1", FALSE>>})
  /\ [][NextRelay]_vars

(* ----------------------- the registry specification ------------------- *)

\* what clients announce: an identity of either role, or nothing usable
NextRegistry ==
  \/ \E socket \in LiveSockets, id \in Identities \cup {""} :
       RiderIdEvt(socket, id) \/ CustomerIdEvt(socket, id)
  \/ \E socket \in LiveSockets : ConnectionEvt(socket)
  \/ \E socket \in LiveSockets : DisconnectEvt(socket)

SpecRegistry ==
  /\ socketMap = [id \in Identities |-> NoId]
  /\ InitRestWith({Amt(100)}, {<<>>}, {PENDING}, {<<NoId, FALSE>>})
  /\ [][NextRegistry]_vars

(* -------------------------- the bus specification --------------------- *)

AssignStep(i) ==
  \/ SubmitPublish(i)
  \/ AssignGet(i)
  \/ AssignPublish(i)

\* match records, requests, listeners and the broker
NextBus ==
  \/ SaveMatch("c1")
  \/ \E request \in PackageRequests \cup {NoRec} :
       PackageRequestEvt("s1", request)
  \/ \E i \in DOMAIN tasks : AssignStep(i)
  \/ \E q \in Listeners :
       \/ ListenAssertExchange(q)
       \/ ListenAssertQueue(q)
       \/ ListenBindQueue(q)
       \/ ListenConsume(q)
       \/ BrokerDeliver(q)
       \/ BrokerExpire(q)
  \/ Tick

\* rider r1 and customer c1 have announced themselves
SpecBus ==
  /\ socketMap = [id \in Identities |->
                    IF id = "c1" THEN "s1" ELSE IF id = "r1" THEN "s2" ELSE NoId]
  /\ InitRestWith({Amt(100)}, {<<>>}, {PENDING}, {<<"r1", FALSE>>})
  /\ [][NextBus]_vars

(* ------------------------ the dispatch specification ------------------ *)

CtlStep(i) ==
  \/ CtlConnect(i)
  \/ CtlChannel(i)
  \/ CtlGet(i)
  \/ RespondPublish(i)
  \/ RespondChannelClosed(i)
  \/ RespondConnectionClosed(i)

\* customer c1 has announced itself, and maybe rider r1
InitDispatch(matches) ==
  /\ \E s \in {"s2", NoId} :
       socketMap = [id \in Identities |->
                      IF id = "c1" THEN "s1"
                      ELSE IF id = "r1" THEN s ELSE NoId]
  /\ InitRestWith({Amt(100)}, {<<>>}, {PENDING}, matches)

\* discovery as the controller runs it, then the request and its assignment
NextDispatch ==
  \/ \E c \in Customers : FindRiders(c)
  \/ \E i \in DOMAIN tasks : FindStep(i)
  \/ \E request \in PackageRequests : PackageRequestEvt("s1", request)
  \/ PackageRequestCtl("s1")
  \/ SendDriverResponseCtl
  \/ \E i \in DOMAIN tasks : CtlStep(i) \/ AssignStep(i)

SpecDispatch == InitDispatch({<<NoId, FALSE>>}) /\ [][NextDispatch]_vars

(* ----------------------- the assignment specification ----------------- *)

\* the requests of both services and their assignments
NextAssign ==
  \/ \E request \in PackageRequests \cup {NoRec} :
       PackageRequestEvt("s1", request)
  \/ PackageRequestCtl("s1")
  \/ SendDriverResponseCtl
  \/ \E i \in DOMAIN tasks : CtlStep(i) \/ AssignStep(i)

\* no discovery yet, or one that has answered with r1 and whose match
\* record is in the cache
SpecAssign ==
  /\ InitDispatch({<<NoId, FALSE>>, <<"r1", TRUE>>})
  /\ [][NextAssign]_vars

(* ----------------------- the discovery specification ------------------ *)

\* distances in metres, all within the radius; the last one takes an hour
\* and half a minute by bike
Distances == {1000, 2000, 30250}

\* what the radius query can return: at most one location per rider, in
\* ascending order of distance ($sort: { distance: 1 }); "r9" has a location
\* but no rider record
NearResults ==
  {locs \in UNION {[1..n -> [rider : Riders \cup {"r9"}, distance : Distances]] :
                     n \in 0..MaxNear} :
     /\ \A k \in 1..(Len(locs) - 1) :
          locs[k].distance <= locs[k + 1].distance
     /\ \A j, k \in DOMAIN locs : j # k => locs[j].rider # locs[k].rider}

\* the start of a discovery behaviour: the riders in the order r1, r2, r9
\* at the distances 1 km, 2 km and 30.25 km, all eligible and on bikes, each
\* customer with a delivery, but for one of: who is returned and who is
\* eligible (each rider online and active, offline, or not active); how
\* far the riders are; what they ride and who owns delivery d2
InitDiscovery ==
  /\ socketMap = [id \in Identities |-> NoId]
  /\ announced = <<>>
  /\ unserved = {}
  /\ redis = [k \in {PACKAGE_REQUEST_INFO, RIDER_INFO} |-> NoRec]
  /\ nearRiders \in NearResults
  /\ LET ranked == \A k \in DOMAIN nearRiders :
                      nearRiders[k].distance = <<1000, 2000, 30250>>[k]
         ordered == \A k \in DOMAIN nearRiders :
                      nearRiders[k].rider = <<"r1", "r2", "r9">>[k]
         eligible == riders = [r \in Riders |-> RiderDoc(r, "online", TRUE)]
         bikes == vehicles = [r \in Riders |-> "bike"]
         owned(c2) ==
           deliveries = [d \in DeliveryIds |->
                           IF d = "d1"
                           THEN DeliveryDoc("d1", "c1", Amt(100), "ref1")
                           ELSE DeliveryDoc("d2", c2, 12 * Scale + 3400,
                                            "ref2")]
     IN  \/ /\ ranked
            /\ \E st \in [Riders -> {<<"online", TRUE>>, <<"offline", TRUE>>,
                                       <<"online", FALSE>>}] :
                 riders = [r \in Riders |-> RiderDoc(r, st[r][1], st[r][2])]
            /\ bikes
            /\ owned("c2")
         \/ /\ ordered
            /\ eligible
            /\ bikes
            /\ owned("c2")
         \/ /\ ranked
            /\ ordered
            /\ eligible
            /\ \E vehicleType \in {"bike", "car", "bus", "truck", "none"} :
                 vehicles = [r \in Riders |-> vehicleType]
            /\ \E c2 \in Customers : owned(c2)
  /\ InitOrders
  /\ found = [c \in Customers |-> [kind |-> "none"]]
  /\ riderWallets = <<>>
  /\ wallet0 = riderWallets
  /\ adminFees = <<>>
  /\ notifications = <<>>
  /\ emitted = <<>>
  /\ tasks = [i \in 1..MaxTasks |-> Idle]
  /\ InitBus

NextDiscovery ==
  \/ \E c \in Customers : FindRiders(c)
  \/ \E i \in DOMAIN tasks : FindStep(i)

SpecDiscovery == InitDiscovery /\ [][NextDiscovery]_vars

(* ------------------------------ claims -------------------------------- *)

\* the stage of a delivery: assigned is a pending delivery with a rider
Stage(d) ==
  IF deliveries[d].status = PENDING
  THEN IF deliveries[d].rider = NoId THEN "pending" ELSE "assigned"
  ELSE deliveries[d].status

\* C1: a delivery's status changes only along pending -> assigned ->
\* on_transit -> delivered; no step skips a stage.
C1_StatusOrder ==
  [][\A d \in DeliveryIds :
       \/ Stage(d)' = Stage(d)
       \/ <<Stage(d), Stage(d)'>> \in {<<"pending", "assigned">>,
                                       <<"assigned", ON_TRANSIT>>,
                                       <<ON_TRANSIT, DELIVERED>>}]_vars

WalletsOf(ws, r) == SelectSeq(ws, LAMBDA w : w.rider = r)

\* what the wallets of rider r hold beyond what they held at the start
Credited(r) == SumBalance(WalletsOf(riderWallets, r)) - SumBalance(WalletsOf(wallet0, r))

\* round(ADMIN_CHARGES% of fee), stated on its own: the whole number n of
\* units with n - 1/2 <= adminFee < n + 1/2
IsRoundedAdminFee(n, fee) ==
  /\ 200 * n * Scale <= 2 * ADMIN_CHARGES * fee + 100 * Scale
  /\ 2 * ADMIN_CHARGES * fee + 100 * Scale < 200 * (n + 1) * Scale

\* C2: settlement of one delivery credits the rider at most once: what the
\* rider's wallets gained is at most the rider fee of d1, the one delivery
\* that is settled here.
C2_NoDoubleCredit ==
  \A r \in Riders :
    \E n \in 0..100 :
      /\ IsRoundedAdminFee(n, deliveries["d1"].deliveryFee)
      /\ Credited(r) <= deliveries["d1"].deliveryFee - n * Scale

Settling(t) == t.kind = "end" /\ t.pc \in {"ed_credit", "ed_fee", "ed_del"}

\* C3: in every settlement of a delivery that exists riderFee =
\* deliveryFee - round(adminFee) with adminFee = ADMIN_CHARGES% of
\* deliveryFee, so riderFee + adminFee is the delivery fee up to the
\* rounding of adminFee (at most half a unit); every recorded admin fee
\* that is an amount is ADMIN_CHARGES% of its delivery's fee.
C3_SettlementConservative ==
  /\ \A i \in DOMAIN tasks :
       (Settling(tasks[i]) /\ tasks[i].delivery # NoRec) =>
         LET t == tasks[i]
             fee == t.delivery.deliveryFee
         IN  /\ 100 * t.adminFee = ADMIN_CHARGES * fee
             /\ \E n \in 0..100 :
                  /\ IsRoundedAdminFee(n, fee)
                  /\ t.riderFee + n * Scale = fee
             /\ 2 * (t.riderFee + t.adminFee - fee) <= Scale
             /\ 2 * (fee - t.riderFee - t.adminFee) <= Scale
  /\ \A k \in DOMAIN adminFees :
       adminFees[k].adminFee # Null =>
         \A d \in DOMAIN deliveries :
           deliveries[d].deliveryRefNumber = adminFees[k].deliveryRefNumber
             => 100 * adminFees[k].adminFee
                  = ADMIN_CHARGES * deliveries[d].deliveryFee

\* a settlement of a 15-unit fee: adminFee 1.5 rounds to 2, riderFee is 13
C3_Witness ==
  \E i \in DOMAIN tasks :
    /\ tasks[i].pc = "ed_del"
    /\ tasks[i].delivery # NoRec
    /\ tasks[i].delivery.deliveryFee = Amt(15)
    /\ tasks[i].riderFee = Amt(13)
    /\ Len(adminFees) = 1
    /\ 2 * adminFees[1].adminFee = Amt(3)

\* C9: when endDelivery of a delivery that exists finds no wallet of the
\* rider, its wallet write creates one whose balance is deliveryFee -
\* round(ADMIN_CHARGES% of deliveryFee), and the admin fee it records next
\* is ADMIN_CHARGES% of deliveryFee: a fee of 100 gives a wallet of 90 and
\* an admin fee of 10.
C9_NewWalletGetsRiderFee ==
  [][\A i \in DOMAIN tasks :
       LET t == tasks[i]
           fee == IF t.delivery = NoRec THEN Null ELSE t.delivery.deliveryFee
       IN  /\ (t.pc = "ed_credit" /\ t.riderWallet = NoRec
                 /\ t.delivery # NoRec /\ tasks'[i].pc = "ed_fee") =>
                /\ Len(riderWallets') = Len(riderWallets) + 1
                /\ SubSeq(riderWallets', 1, Len(riderWallets)) = riderWallets
                /\ LET w == riderWallets'[Len(riderWallets')]
                   IN  /\ w.rider = t.redisData.riderId
                       /\ \E n \in 0..100 :
                            /\ IsRoundedAdminFee(n, fee)
                            /\ w.balance = fee - n * Scale
                       /\ fee = Amt(100) => w.balance = Amt(90)
           /\ (t.pc = "ed_fee" /\ t.delivery # NoRec
                 /\ tasks'[i].pc = "ed_del") =>
                /\ Len(adminFees') = Len(adminFees) + 1
                /\ LET a == adminFees'[Len(adminFees')]
                   IN  /\ a.rider = t.redisData.riderId
                       /\ 100 * a.adminFee = ADMIN_CHARGES * fee
                       /\ fee = Amt(100) => a.adminFee = Amt(10)]_vars

\* a finished settlement of a 100-unit fee for a rider without a wallet
C9_Witness ==
  /\ wallet0 = <<>>
  /\ "d1" \in DOMAIN deliveries
  /\ deliveries["d1"].deliveryFee = Amt(100)
  /\ deliveries["d1"].status = DELIVERED
  /\ riderWallets = <<[_id |-> "w1", rider |-> "r1", balance |-> Amt(90)]>>
  /\ adminFees = <<[deliveryRefNumber |-> "ref1", rider |-> "r1",
                    adminFee |-> Amt(10)]>>
  /\ redis[PACKAGE_REQUEST_INFO] = NoRec
  /\ \A i \in DOMAIN tasks : tasks[i] = Idle

\* C10: when endDelivery found a wallet of the rider with balance B, its
\* wallet write leaves that rider's wallet at B + riderFee.
C10_ExistingWalletCredited ==
  [][\A i \in DOMAIN tasks :
       LET t == tasks[i] IN
         (t.pc = "ed_credit" /\ t.riderWallet # NoRec
            /\ tasks'[i].pc = "ed_fee") =>
           WalletFindByAny(t.redisData.riderId)'.balance =
             WalletFindByAny(t.redisData.riderId).balance + t.riderFee]_vars


\* C6: a decline consumed for a connected customer emits riderDeclined to
\* that customer's socket, and the step that ends the relay leaves the
\* match record unreadable.
C6_DeclineRelay ==
  [][\A i \in DOMAIN tasks :
       /\ (tasks[i] = Idle /\ tasks'[i].kind = "relay"
             /\ ~tasks'[i].data.availability) =>
            /\ socketMap[tasks'[i].data.customerId] # NoId
            /\ emitted' = <<[to |-> socketMap[tasks'[i].data.customerId],
                             event |-> "riderDeclined",
                             about |-> tasks'[i].data.customerId]>>
       /\ (tasks[i].kind = "relay" /\ ~tasks[i].data.availability
             /\ tasks[i].pc = "nu_del" /\ tasks'[i].pc # "nu_del") =>
            redis'[PACKAGE_REQUEST_INFO] = NoRec]_vars

\* a decline relay has ended while its riderAvailability call, which read
\* the match record before the delete, has yet to save its notification
C6_Witness ==
  \E i \in DOMAIN tasks :
    /\ tasks[i].kind = "relay"
    /\ ~tasks[i].data.availability
    /\ tasks[i].pc = "done"
    /\ tasks[i].ra = "ra_create"
    /\ redis[PACKAGE_REQUEST_INFO] = NoRec

\* the socket of the last announcement of an identity, under either event
RECURSIVE LastAnnounced(_, _)
LastAnnounced(log, id) ==
  IF log = <<>> THEN NoId
  ELSE IF log[Len(log)].id = id THEN log[Len(log)].socket
  ELSE LastAnnounced(SubSeq(log, 1, Len(log) - 1), id)

\* C7: a lookup returns the socket of the identity's most recent
\* announcement, whatever the event (riderId or customerId) that made it.
C7_LookupLatest ==
  \A id \in Identities : FindSocketIdByRiderId(id) = LastAnnounced(announced, id)

\* c1 announced as a rider on s1, then as a customer on s2: s2 is returned
C7_Witness ==
  /\ Len(announced) >= 2
  /\ announced[1] = [event |-> "riderId", id |-> "c1", socket |-> "s1"]
  /\ announced[2] = [event |-> "customerId", id |-> "c1", socket |-> "s2"]
  /\ FindSocketIdByRiderId("c1") = "s2"

\* the positions of the returned locations whose rider is online and active
EligibleAt ==
  {k \in DOMAIN nearRiders :
     /\ nearRiders[k].rider \in DOMAIN riders
     /\ riders[nearRiders[k].rider].status = "online"
     /\ riders[nearRiders[k].rider].active = TRUE}

\* the positions of the returned locations that name the given rider
PositionsOf(r) == {k \in DOMAIN nearRiders : nearRiders[k].rider = r}

\* C4: a successful discovery never selects a rider that is not online or
\* not active, whatever the radius query returned and however close the
\* ineligible riders are; the snapshot it caches, once the write that the
\* response does not wait for has landed, is of an eligible rider too
C4_NeverIneligible ==
  \A c \in Customers :
    found[c].kind = "ok" =>
      /\ found[c].rider \in DOMAIN riders
      /\ riders[found[c].rider].status = "online"
      /\ riders[found[c].rider].active = TRUE
      /\ PositionsOf(found[c].rider) # {}
      /\ redis[RIDER_INFO] # NoRec =>
           /\ redis[RIDER_INFO]._id \in DOMAIN riders
           /\ riders[redis[RIDER_INFO]._id].status = "online"
           /\ riders[redis[RIDER_INFO]._id].active = TRUE

\* an ineligible rider with a rider record is strictly closer than the
\* rider that was selected
C4_Witness ==
  \E c \in Customers :
    /\ found[c].kind = "ok"
    /\ \E j, k \in DOMAIN nearRiders :
         /\ nearRiders[k].rider = found[c].rider
         /\ nearRiders[j].distance < nearRiders[k].distance
         /\ nearRiders[j].rider \in DOMAIN riders
         /\ j \notin EligibleAt

\* C5: when a customer with a delivery runs discovery and some returned
\* rider is online and active, discovery succeeds and selects the first
\* eligible rider in ascending distance order, so no eligible rider is
\* closer than the selected one
C5_NearestEligible ==
  \A c \in Customers :
    /\ (found[c].kind # "none" /\ DeliveryFindAll(c) # <<>> /\ EligibleAt # {})
         => found[c].kind = "ok"
    /\ found[c].kind = "ok" =>
         \E k \in EligibleAt :
           /\ nearRiders[k].rider = found[c].rider
           /\ \A j \in EligibleAt :
                /\ k <= j
                /\ nearRiders[k].distance <= nearRiders[j].distance

\* two eligible riders at different distances, the nearer one selected
C5_Witness ==
  \E c \in Customers :
    /\ found[c].kind = "ok"
    /\ \E j, k \in EligibleAt :
         /\ nearRiders[k].rider = found[c].rider
         /\ nearRiders[k].distance < nearRiders[j].distance

\* C8: a package request is handed only to listeners whose queue was bound
\* before it was published, and only before its expiration has run out: a
\* request nobody consumed within EXPIRATION_AMQP_MESSAGE never reaches a
\* consumer that joins afterwards
C8_ExpiredNotDelivered ==
  \A k \in DOMAIN received :
    LET r == received[k] IN
      /\ queues[r.queue].bindSeq < r.seq
      /\ r.at < published[r.seq].at + EXPIRATION_AMQP_MESSAGE

\* a request has expired unconsumed in the queue of a listener that was bound
\* in time but consumed late, and a listener that bound its queue after the
\* publication is consuming: neither received it
C8_Witness ==
  \E k \in DOMAIN published, q1, q2 \in Listeners :
    /\ clock >= published[k].at + EXPIRATION_AMQP_MESSAGE
    /\ queues[q1].state = "consuming"
    /\ queues[q1].bindSeq < k
    /\ queues[q1].msgs = <<>>
    /\ queues[q2].state = "consuming"
    /\ queues[q2].bindSeq >= k
    /\ \A j \in DOMAIN received : received[j].seq # k

\* C11: a successful discovery reports an arrival time of at least 2
\* minutes: 2 when the computed minutes is at most 2, the computed minutes
\* otherwise, whatever vehicle the selected rider has, or none
C11_ArrivalFloor ==
  \A c \in Customers :
    found[c].kind = "ok" =>
      /\ ~found[c].arrivalTime.nan
      /\ found[c].arrivalTime.n >= 2
      /\ ~found[c].minutes.nan
      /\ found[c].minutes.n <= 2 => found[c].arrivalTime.n = 2
      /\ found[c].minutes.n > 2 => found[c].arrivalTime = found[c].minutes

\* C12: after a successful discovery, the assignment that a submitted
\* request starts reads the record discovery wrote: when it has read the
\* cache it has the selected rider as its candidate and has sent the
\* notification event to that rider's socket
C12_DispatchReadsDiscovery ==
  [][\A i \in DOMAIN tasks :
       (/\ tasks[i].kind = "assign"
        /\ tasks[i].pc = "ap_get"
        /\ found["c1"].kind = "ok"
        /\ tasks'[i] # tasks[i]) =>
         /\ emitted' = Emit(socketMap[found["c1"].rider], "notification", "c1")
         /\ tasks'[i].pc = "ap_assert"
         /\ tasks'[i].redisData.riderId = found["c1"].rider]_vars

\* C13: an accept relayed for a connected customer emits riderResponse to
\* the customer's socket, and the delivery update it makes sets the rider
\* field of the pending delivery to the riderId of the response, whatever
\* riderId the match record holds
C13_AcceptSetsResponder ==
  [][\A i \in DOMAIN tasks :
       /\ (tasks[i] = Idle /\ tasks'[i].kind = "relay"
             /\ tasks'[i].data.availability) =>
            emitted' = Emit(socketMap[tasks'[i].data.customerId],
                            "riderResponse", tasks'[i].data.riderId)
       /\ (tasks[i].kind = "relay" /\ tasks[i].pc = "nu_upd"
             /\ tasks'[i].pc # "nu_upd") =>
            deliveries'[tasks[i].redisData.deliveryId].rider =
              tasks[i].data.riderId]_vars

\* C14: a discovery for a customer with no delivery record, or whose radius
\* query returns no rider, or none of whose returned riders is online and
\* active, fails with NotFound: it neither returns a rider nor fails with
\* another kind of error
C14_NotFoundCases ==
  \A c \in Customers :
    (/\ found[c].kind # "none"
     /\ \/ DeliveryFindAll(c) = <<>>
        \/ nearRiders = <<>>
        \/ EligibleAt = {}) =>
      found[c].kind = "NotFound"

\* an assignment is about to act on the result of its cache read
Assigning(i) == tasks[i].kind = "assign" /\ tasks[i].pc = "ap_get"

\* the channel of the task's service has stayed open since the task's
\* pending broker call was made
ChannelOpen(i) ==
  /\ Usable(tasks[i].service, tasks[i].channel)
  /\ Usable(tasks[i].service, controller.channel)

\* C15: sending to a rider with no entry in the registry of the service is a
\* no-op: the assignment whose candidate has no socket there emits nothing,
\* changes nothing but its own position, and, on a service whose channel is
\* open, goes on to publish the assignment
C15_AbsentRiderNoOp ==
  [][\A i \in DOMAIN tasks :
       /\ (/\ Assigning(i)
           /\ tasks'[i] # tasks[i]
           /\ redis[PACKAGE_REQUEST_INFO] # NoRec
           /\ SocketOf(tasks[i].service,
                       redis[PACKAGE_REQUEST_INFO].riderId) = NoId) =>
            /\ emitted' = <<>>
            /\ Usable(tasks[i].service, controller.channel) =>
                 /\ tasks'[i].pc = "ap_assert"
                 /\ tasks'[i].redisData = redis[PACKAGE_REQUEST_INFO]
                 /\ tasks'[i].data = tasks[i].data
            /\ UNCHANGED <<regVars, redis, dbVars, discVars, orderVars, busVars>>
       /\ (/\ tasks[i].kind = "assign"
           /\ tasks[i].pc = "ap_assert"
           /\ SocketOf(tasks[i].service, tasks[i].redisData.riderId) = NoId
           /\ ChannelOpen(i)
           /\ tasks'[i] # tasks[i]) =>
            /\ Len(assigned') = Len(assigned) + 1
            /\ assigned'[Len(assigned')].assignedTo = tasks[i].redisData.riderId]_vars

\* an assignment to r1 was published although r1 has no socket
C15_Witness ==
  /\ socketMap["r1"] = NoId
  /\ Len(assigned) = 1
  /\ assigned[1].assignedTo = "r1"

\* C18: an assignment that finds a candidate whose rider has a socket with
\* the service sends exactly one notification event, to that socket, and
\* then, its channel being open, publishes exactly one message on
\* assigned_package_requests: the request with assignedTo set to the riderId
\* it read from the cache
C18_AssignOnce ==
  [][\A i \in DOMAIN tasks :
       /\ (/\ Assigning(i)
           /\ tasks'[i] # tasks[i]
           /\ redis[PACKAGE_REQUEST_INFO] # NoRec
           /\ SocketOf(tasks[i].service,
                       redis[PACKAGE_REQUEST_INFO].riderId) # NoId) =>
            /\ emitted' = <<[to |-> socketMap[redis[PACKAGE_REQUEST_INFO].riderId],
                             event |-> "notification",
                             about |-> redis[PACKAGE_REQUEST_INFO].customerId]>>
            /\ assigned' = assigned
            /\ tasks'[i].pc = "ap_assert"
            /\ tasks'[i].redisData = redis[PACKAGE_REQUEST_INFO]
       /\ (/\ tasks[i].kind = "assign"
           /\ tasks[i].pc = "ap_assert"
           /\ ChannelOpen(i)
           /\ tasks'[i] # tasks[i]) =>
            /\ assigned' = Append(assigned,
                                  [request |-> tasks[i].data,
                                   assignedTo |-> tasks[i].redisData.riderId])
            /\ emitted' = <<>>
            /\ tasks'[i] = Idle]_vars

\* the assignment of a request to r1, who has a socket, has been published
\* and the assignment has ended
C18_Witness ==
  /\ socketMap["r1"] = "s2"
  /\ Len(assigned) = 1
  /\ assigned[1].assignedTo = "r1"
  /\ assigned[1].request = pendingRequests[1]
  /\ \A i \in DOMAIN tasks : tasks[i] = Idle

\* C19: an assignment that finds no candidate ends without a notification
\* and without a message on assigned_package_requests and changes nothing;
\* the submitPackageRequest that started it, its channel being open, has
\* recorded the request in the pendingRequests of its service all the same
C19_NoCandidate ==
  [][\A i \in DOMAIN tasks :
       /\ (/\ Assigning(i)
           /\ tasks'[i] # tasks[i]
           /\ redis[PACKAGE_REQUEST_INFO] = NoRec) =>
            /\ emitted' = <<>>
            /\ tasks'[i] = Idle
            /\ UNCHANGED <<regVars, redis, dbVars, discVars, orderVars, busVars>>
       /\ (/\ tasks[i].kind = "submit"
           /\ tasks[i].pc = "sp_assert"
           /\ ChannelOpen(i)
           /\ tasks'[i] # tasks[i]) =>
            /\ IF tasks[i].service = "ctl"
               THEN controller'.pendingRequests =
                      Append(controller.pendingRequests, tasks[i].data)
               ELSE pendingRequests' = Append(pendingRequests, tasks[i].data)
            /\ published' = Append(published,
                                   [content |-> tasks[i].data,
                                    options |-> RequestOptions,
                                    at |-> clock, seq |-> Len(published) + 1])
            /\ Assigning(i)']_vars

\* a request was submitted and recorded with no match record ever cached: its
\* assignment has ended and nothing was assigned
C19_Witness ==
  /\ found["c1"].kind = "none"
  /\ Len(pendingRequests) = 1
  /\ Len(published) = 1
  /\ assigned = <<>>
  /\ \A i \in DOMAIN tasks : tasks[i] = Idle

\* the identities registered with the given socket
RegisteredWith(socket) == {id \in Identities : socketMap[id] = socket}

\* C16: the reverse lookup of a connection id returns an identity whose
\* registered connection has that id, and is absent only when no registered
\* connection has it
C16_ReverseLookup ==
  \A socket \in Sockets :
    IF RegisteredWith(socket) = {}
    THEN FindRiderIdBySocketId(IdOf(socket)) = NoId
    ELSE FindRiderIdBySocketId(IdOf(socket)) \in RegisteredWith(socket)

\* C17: a startDelivery or endDelivery event for a customer with no
\* registered socket emits nothing and leaves the delivery status, the rider's
\* busy flag, the wallets, the admin-fee records and the match cache
\* unchanged, and starts no work that could change them later
C17_AbsentCustomerNoOp ==
  [][unserved' # unserved =>
       /\ emitted' = <<>>
       /\ UNCHANGED <<deliveries, riders, riderWallets, wallet0, adminFees,
                      redis, tasks>>]_vars

\* both events were received for the absent customer c2 while a match was
\* cached
C17_Witness ==
  /\ socketMap["c2"] = NoId
  /\ Unserved("startDelivery", [customerId |-> "c2"]) \in unserved
  /\ Unserved("endDelivery", [customerId |-> "c2"]) \in unserved
  /\ GetToken(PACKAGE_REQUEST_INFO) # NoRec

\* C20: in every interleaving of two customers' events, a step of the
\* handler of an accept, startDelivery or endDelivery event for one customer
\* never updates the delivery that belongs to the other customer
C20_NoCrossCustomerUpdate ==
  [][\A i \in DOMAIN tasks, d \in DeliveryIds :
       (/\ tasks[i].kind \in {"relay", "start", "end"}
        /\ tasks'[i] # tasks[i]
        /\ deliveries'[d] # deliveries[d])
       => deliveries[d].customer = tasks[i].data.customerId]_vars

\* C21: a standing subscriber starts assignPackageToDriver for every message
\* it is handed, a message this process published and recorded itself
\* included: nothing deduplicates, so one submitted request can be assigned
\* by the submitter and again by every subscriber
C21_SubscriberRetriggers ==
  [][received' # received =>
       \E i \in DOMAIN tasks :
         /\ tasks[i] = Idle
         /\ tasks'[i] = NewTask("assign",
                                published[received'[Len(received')].seq].content,
                                NoId, "ap_get", "none")]_vars

\* one request was published, and it was assigned more than once to the
\* same rider, whose socket got the notification each time
C21_Witness ==
  /\ Len(published) = 1
  /\ Len(pendingRequests) = 1
  /\ Len(received) >= 1
  /\ Len(assigned) >= 2
  /\ \A k \in DOMAIN assigned :
       /\ assigned[k].request = published[1].content
       /\ assigned[k].assignedTo = "r1"
  /\ socketMap["r1"] # NoId

\* C22: no operation removes an entry of the registry: a registered identity
\* stays registered, a disconnect leaves the registry as it is, and the
\* lookup of an identity whose socket has disconnected still returns that
\* socket until the identity is announced again
C22_NeverUnregistered ==
  /\ [](\A id \in Identities :
          LastAnnounced(announced, id) \notin LiveSockets \cup {NoId}
          => FindSocketIdByRiderId(id) = LastAnnounced(announced, id))
  /\ [][/\ \A id \in Identities : socketMap[id] # NoId => socketMap'[id] # NoId
        /\ (/\ Len(announced') > Len(announced)
            /\ announced'[Len(announced')].event = "disconnect")
           => socketMap' = socketMap]_vars

\* r1 registered on s1, s1 disconnected, and the lookup of r1 still gives s1
C22_Witness ==
  /\ "s1" \notin LiveSockets
  /\ LastAnnounced(announced, "r1") = "s1"
  /\ FindSocketIdByRiderId("r1") = "s1"

\* C23: a handler deletes the match record only in the delete step of a
\* relayed decline or in the last step of endDelivery, after the status, the
\* rider, the wallet and the admin fee; the accept relay and startDelivery
\* leave it in place, and when endDelivery finishes the record is gone
C23_CacheDeletion ==
  [][\A i \in DOMAIN tasks :
       tasks'[i] # tasks[i] /\ tasks[i] # Idle =>
         /\ (redis[PACKAGE_REQUEST_INFO] # NoRec
             /\ redis'[PACKAGE_REQUEST_INFO] = NoRec)
            => \/ tasks[i].kind = "relay" /\ tasks[i].pc = "nu_del"
                  /\ ~tasks[i].data.availability
               \/ tasks[i].kind = "end" /\ tasks[i].pc = "ed_del"
                  /\ tasks'[i] = Idle
                  /\ Len(adminFees) > 0
         /\ (tasks[i].kind = "end" /\ tasks[i].pc = "ed_del")
            => redis'[PACKAGE_REQUEST_INFO] = NoRec
         /\ (\/ tasks[i].kind = "start"
             \/ tasks[i].kind = "relay" /\ tasks[i].data.availability)
            => redis' = redis]_vars

\* the delivery was accepted, started and ended: it is delivered, the fee is
\* recorded and the record is gone
C23_Witness ==
  /\ deliveries["d1"].rider = "r1"
  /\ deliveries["d1"].status = DELIVERED
  /\ Len(adminFees) = 1
  /\ Len(notifications) >= 1
  /\ GetToken(PACKAGE_REQUEST_INFO) = NoRec
  /\ \A i \in DOMAIN tasks : tasks[i] = Idle

\* the step in which the admin-fee create of handler i fails
FeeFailed(i) ==
  /\ tasks[i].kind = "end"
  /\ tasks[i].pc = "ed_fee"
  /\ tasks'[i] = Idle

\* C24: when the admin-fee create fails after the wallet write, nothing is
\* rolled back: the delivered status, the rider, the wallets (the credit
\* included) stay, no admin-fee record is added and the cache entry is not
\* deleted, so that endDelivery can run the settlement again
C24_NoCompensation ==
  [][\A i \in DOMAIN tasks :
       FeeFailed(i) =>
         /\ UNCHANGED <<deliveries, riders, riderWallets, adminFees, redis>>
         /\ tasks[i].riderWallet = NoRec =>
              \E k \in DOMAIN riderWallets' :
                /\ riderWallets'[k].rider = tasks[i].redisData.riderId
                /\ riderWallets'[k].balance = tasks[i].riderFee]_vars

\* after a failure (delivered, a wallet created, no admin-fee record, the
\* match still cached, the first handler gone) a second endDelivery is at
\* its wallet write, having found the wallet the first one created
C24_Witness ==
  /\ deliveries["d1"].status = DELIVERED
  /\ adminFees = <<>>
  /\ wallet0 = <<>>
  /\ Len(riderWallets) = 1
  /\ GetToken(PACKAGE_REQUEST_INFO) # NoRec
  /\ tasks[1].kind = "end" /\ tasks[1].pc = "ed_credit"
  /\ tasks[1].riderWallet # NoRec
  /\ tasks[2] = Idle

\* C25: admin-fee records are append-only and there is one per completed
\* delivery: no record is changed or removed, and no two records carry the
\* same deliveryRefNumber
C25_OneFeePerDelivery ==
  /\ [](\A j, k \in DOMAIN adminFees :
          j # k => adminFees[j].deliveryRefNumber # adminFees[k].deliveryRefNumber)
  /\ [][/\ Len(adminFees') >= Len(adminFees)
        /\ SubSeq(adminFees', 1, Len(adminFees)) = adminFees]_vars

\* the cruising speed the claim names for a vehicle type
CruisingSpeed(vehicleType) ==
  CASE vehicleType = "bike" -> BIKE_SPEED
    [] vehicleType = "car" -> CAR_SPEED
    [] vehicleType = "bus" -> BUS_SPEED
    [] OTHER -> AVERAGE_SPEED

\* m is the part of an hour, in minutes rounded to the nearest minute, of a
\* travel of metres at speed km/h; an exact half minute may go either way,
\* the quotient being carried in doubles
IsMinutesOf(m, metres, speed) ==
  \E h \in 0..(metres \div (1000 * speed)) :
    /\ h * 1000 * speed <= metres
    /\ metres < (h + 1) * 1000 * speed
    /\ 2 * m * 1000 * speed <= 2 * 60 * (metres - h * 1000 * speed) + 1000 * speed
    /\ 2 * 60 * (metres - h * 1000 * speed) + 1000 * speed <= 2 * (m + 1) * 1000 * speed

\* C26: for a chosen rider with a vehicle, the estimated time is the sum over
\* every rider the radius query returned of its distance in km divided by
\* the cruising speed of the chosen rider's vehicle, and the minutes
\* reported are the minutes of that sum, to the nearest minute
C26_AggregateEstimate ==
  \A c \in Customers :
    (found[c].kind = "ok" /\ vehicles[found[c].rider] # "none") =>
      /\ ~found[c].minutes.nan
      /\ IsMinutesOf(found[c].minutes.n, SumDistance(nearRiders),
                     CruisingSpeed(vehicles[found[c].rider]))

\* two riders were returned, 1 km and 2 km away, the chosen one rides a
\* bike: 6 minutes, the time of 3 km, not that of either rider
C26_Witness ==
  /\ found["c1"].kind = "ok"
  /\ vehicles[found["c1"].rider] = "bike"
  /\ Len(nearRiders) = 2
  /\ nearRiders[1].distance = 1000
  /\ nearRiders[2].distance = 2000
  /\ found["c1"].minutes = Num(6)

\* C27: whenever no startDelivery or endDelivery handler is running, a rider
\* is busy if and only if some delivery assigned to that rider is on transit
C27_BusyIffOnTransit ==
  (\A i \in DOMAIN tasks : tasks[i].kind \notin {"start", "end"}) =>
    \A r \in Riders :
      riders[r].busy <=>
        \E d \in DeliveryIds :
          deliveries[d].rider = r /\ deliveries[d].status = ON_TRANSIT

\* handler i is at the cache read of startDelivery, endDelivery or the
\* accept relay
ReadsMatch(i) ==
  \/ tasks[i].kind = "start" /\ tasks[i].pc = "sd_get"
  \/ tasks[i].kind = "end" /\ tasks[i].pc = "ed_get"
  \/ tasks[i].kind = "relay" /\ tasks[i].pc = "nu_get"

\* C28: when startDelivery, endDelivery or the accept relay of a connected
\* customer reads the match record and there is none, the handler fails
\* there: it emits nothing at that step and neither then nor later updates a
\* delivery or a rider, credits a wallet or records an admin fee
C28_AbsentMatchFails ==
  [][\A i \in DOMAIN tasks :
       /\ (/\ ReadsMatch(i)
           /\ tasks'[i].pc # tasks[i].pc
           /\ GetToken(PACKAGE_REQUEST_INFO) = NoRec)
          => /\ tasks'[i] = Idle \/ tasks'[i].pc = "failed"
             /\ emitted' = <<>>
             /\ UNCHANGED <<deliveries, riders, riderWallets, adminFees>>
       /\ (tasks[i].pc = "failed" /\ tasks'[i] # tasks[i])
          => UNCHANGED <<deliveries, riders, riderWallets, adminFees>>]_vars

\* with no match record, an accept relay has failed at its read, leaving
\* the delivery without a rider, and a startDelivery or endDelivery is about
\* to read
C28_Witness ==
  /\ GetToken(PACKAGE_REQUEST_INFO) = NoRec
  /\ \E i, j \in DOMAIN tasks :
       /\ tasks[i].kind = "relay"
       /\ tasks[i].data.availability
       /\ tasks[i].pc = "failed"
       /\ tasks[j].kind \in {"start", "end"}
       /\ ReadsMatch(j)

\* the step handles a driver response whose customer has no socket
ResponseUnserved ==
  \E e \in unserved' \ unserved : e.event = "driverResponse"

\* C29: a driver response, accept or decline, for a customer with no entry
\* in the registry does nothing: no event is emitted, no notification record
\* is created, no delivery is given a rider, the match record stays (on a
\* decline too) and no handler is left running
C29_AbsentCustomerRelay ==
  [][ResponseUnserved =>
       /\ emitted' = <<>>
       /\ UNCHANGED <<notifications, deliveries, riders, redis, tasks>>]_vars

\* a response was consumed for the absent customer c2 while a match was
\* cached: the record is still there and nothing was recorded
C29_Witness ==
  /\ socketMap["c2"] = NoId
  /\ Unserved("driverResponse", [customerId |-> "c2"]) \in unserved
  /\ GetToken(PACKAGE_REQUEST_INFO) # NoRec
  /\ notifications = <<>>

\* the fees of the deliveries created for a customer
RECURSIVE SumCreated(_, _)
SumCreated(ds, c) ==
  IF ds = <<>> THEN 0
  ELSE (IF Head(ds).customer = c THEN Head(ds).deliveryFee ELSE 0)
       + SumCreated(Tail(ds), c)

\* C30: in every interleaving of doDelivery calls a customer's wallet
\* balance is never negative and, once the calls have ended, is the initial
\* balance minus the fees of the deliveries created; without a wallet no
\* delivery is created
C30_WalletTracksDeliveries ==
  \A c \in Customers :
    IF customerWallets[c] = NoRec
    THEN SumCreated(created, c) = 0
    ELSE /\ customerWallets[c].balance >= 0
         /\ InFlight("deliver") = 0 =>
              customerWallets[c].balance
                = InitialBalance - SumCreated(created, c)

\* a doEditDelivery call is rejected for the delivery's status
EditRejected(i) ==
  /\ tasks[i].kind = "edit"
  /\ tasks[i].pc = "de_find"
  /\ DeliveryFindById(tasks[i].data.deliveryId).status # PENDING
  /\ tasks'[i] = Idle

\* C31: a delivery is edited only while pending: an edit of a delivery that
\* is not pending is rejected and changes neither the delivery nor the
\* wallet; an edit keeps the status pending; and once the edits have ended
\* the wallet balance plus the delivery fee is what it was before them
C31_EditOnlyPending ==
  /\ [](InFlight("edit") = 0 =>
          customerWallets["c1"].balance + deliveries["d1"].deliveryFee
            = InitialBalance + Amt(100))
  /\ [][/\ \A i \in DOMAIN tasks :
             EditRejected(i) =>
               deliveries' = deliveries /\ customerWallets' = customerWallets
        /\ \A d \in DeliveryIds :
             deliveries'[d] # deliveries[d] =>
               deliveries[d].status = PENDING /\ deliveries'[d].status = PENDING
       ]_vars

====
